---------------------------- MODULE Spec2Model ----------------------------
(***************************************************************************)
(* The spreadsheet formula engine of CrowForge (src/backend/formula.py)    *)
(* and the sheet it recalculates.                                          *)
(*                                                                         *)
(* Representation.                                                         *)
(*  - A cell key "r,c" is the pair <<r, c>> (0-based).                     *)
(*  - A float is an exact rational <<n, d>>, d > 0, in lowest terms.  The  *)
(*    model's inputs keep every computed value a decimal of at most 10     *)
(*    significant digits (checked by ExactDisplay), for which "%.10g",     *)
(*    str() and float() lose nothing.                                      *)
(*  - A display string is a record [k, n, d]: k = "num" is the decimal     *)
(*    text of n/d; every other k is a text that float() rejects, named by  *)
(*    what the code asks of it (empty, blank after strip, starts with #).  *)
(*  - A formula text is the leading "=" followed by a sequence of lexical  *)
(*    tokens, the units the regular expressions _FUNC_RE and _BARE_REF_RE  *)
(*    and the character parser work on: number literals, operators,        *)
(*    parentheses, bare references, FUNC(REF:REF) calls, leftover          *)
(*    "name(" patterns, and characters outside the arithmetic alphabet.    *)
(*    Only the body after the first "=" is kept.  Whitespace is not        *)
(*    modelled, and two operands (number, ".", reference, function call)   *)
(*    are never adjacent: such characters would run into one another once  *)
(*    references are replaced by numbers.                                  *)
(***************************************************************************)
EXTENDS Integers, Sequences, FiniteSets, TLC

\* ------------------------------------------------------------------------
\* Bounds of the model
\* ------------------------------------------------------------------------
MaxEdits == 1
MaxPerm == 2
\* The longest formula body, in tokens, given to the functions called on
\* their own.
MaxTokens == 4
\* The most operators in an arithmetic expression given to evaluate.
MaxOps == 2
\* The most handler calls in a behaviour of structural edits.
MaxMoves == 2

\* ------------------------------------------------------------------------
\* Program constants
\* ------------------------------------------------------------------------
MAX_DEPTH == 20
\* The most letters of a column in a reference: [A-Za-z]{1,3}.
ColLetters == 3

\* ------------------------------------------------------------------------
\* Floats as exact rationals
\* ------------------------------------------------------------------------
Abs(x) == IF x < 0 THEN -x ELSE x

RECURSIVE Gcd(_, _)
Gcd(a, b) == IF b = 0 THEN a ELSE Gcd(b, a % b)

Norm(n, d) ==
    LET g == Gcd(Abs(n), Abs(d))
        s == IF d < 0 THEN -1 ELSE 1
    IN  <<(s * n) \div g, (s * d) \div g>>

Zero == <<0, 1>>
Int2R(n) == <<n, 1>>
RAdd(x, y) == Norm(x[1] * y[2] + y[1] * x[2], x[2] * y[2])
RSub(x, y) == Norm(x[1] * y[2] - y[1] * x[2], x[2] * y[2])
RMul(x, y) == Norm(x[1] * y[1], x[2] * y[2])
RDiv(x, y) == Norm(x[1] * y[2], x[2] * y[1])
RNeg(x) == <<-x[1], x[2]>>
RLess(x, y) == x[1] * y[2] < y[1] * x[2]
RMin(x, y) == IF RLess(y, x) THEN y ELSE x
RMax(x, y) == IF RLess(x, y) THEN y ELSE x

\* ------------------------------------------------------------------------
\* Display strings
\* ------------------------------------------------------------------------
Str(k, n, d) == [k |-> k, n |-> n, d |-> d]
Empty == Str("", 0, 1)
Spaces == Str(" ", 0, 1)
Word == Str("abc", 0, 1)
NumStr(v) == Str("num", v[1], v[2])
CodeStr(code) == Str(code, 0, 1)

ErrorCodes == {"#ERROR", "#DIV/0", "#REF", "#CYCLE"}
HashTexts == ErrorCodes \cup {"#N/A"}

Truthy(s) == s.k # ""
StartsWithHash(s) == s.k \in HashTexts
StripTruthy(s) == s.k \notin {"", " "}
FloatOk(s) == s.k = "num"
FloatOf(s) == <<s.n, s.d>>

\* format_result: str(int(value)) for an integral value below 1e15, else
\* "%.10g"; both are the decimal text of the value.
format_result(v) == NumStr(v)

\* ------------------------------------------------------------------------
\* Formula tokens
\* ------------------------------------------------------------------------
\* Column letters are a sequence of 1..26 (A = 1, ..., Z = 26).
Tok(t, n, d, c1, r1, c2, r2) ==
    [t |-> t, n |-> n, d |-> d, c1 |-> c1, r1 |-> r1, c2 |-> c2, r2 |-> r2]
TNum(n, d) == Tok("num", n, d, <<>>, 0, <<>>, 0)
TOp(o) == Tok(o, 0, 1, <<>>, 0, <<>>, 0)
\* A bare reference: its column letters and its row number as written
\* (1-based; 0 is the malformed "A0").
TRef(letters, rownum) == Tok("ref", 0, 1, letters, rownum, <<>>, 0)
\* FUNC(REF:REF)
TFunc(name, l1, n1, l2, n2) == Tok(name, 0, 1, l1, n1, l2, n2)
\* a leftover "name(" pattern, e.g. SUM(A1) or FOO(1)
TCall == TOp("call")
\* a character outside the arithmetic alphabet
TJunk == TOp("junk")
\* a digit run with two decimal points, and a lone "."
TTwoDots == TOp("1.2.3")
TDot == TOp(".")

FuncNames == {"SUM", "AVG", "AVERAGE", "COUNT", "MIN", "MAX"}
IsFunc(tok) == tok.t \in FuncNames
IsRef(tok) == tok.t = "ref"

\* str(float) as it is spliced into the expression: a negative value brings
\* its own "-" sign.
NumToks(v) == IF v[1] < 0 THEN <<TOp("-"), TNum(-v[1], v[2])>>
              ELSE <<TNum(v[1], v[2])>>

\* ------------------------------------------------------------------------
\* Reference codec
\* ------------------------------------------------------------------------
\* Results of the functions that may raise: ok, or the raised error's code.
\* "ValueError" stands for a Python exception that is no FormulaError.
Ok(v) == [ok |-> TRUE, v |-> v, code |-> ""]
Raise(code) == [ok |-> FALSE, v |-> Zero, code |-> code]

RECURSIVE ColFold(_, _, _)
ColFold(letters, i, n) ==
    IF i > Len(letters) THEN n
    ELSE ColFold(letters, i + 1, n * 26 + letters[i])

col_to_index(letters) == ColFold(letters, 1, 0) - 1

\* parse_cell_ref on a text of the reference shape: the key, or InvalidRefError
\* when the row number is 0.
RefValid(rownum) == rownum - 1 >= 0
parse_cell_ref(letters, rownum) == <<rownum - 1, col_to_index(letters)>>

Min2(a, b) == IF a < b THEN a ELSE b
Max2(a, b) == IF a < b THEN b ELSE a

\* expand_range: the rectangle between two valid references, row-major.
RECURSIVE RangeSeq(_, _, _, _, _, _)
RangeSeq(r, c, rlo, rhi, clo, chi) ==
    IF r > rhi THEN <<>>
    ELSE IF c > chi THEN RangeSeq(r + 1, clo, rlo, rhi, clo, chi)
    ELSE <<<<r, c>>>> \o RangeSeq(r, c + 1, rlo, rhi, clo, chi)

expand_range(tok) ==
    LET p1 == parse_cell_ref(tok.c1, tok.r1)
        p2 == parse_cell_ref(tok.c2, tok.r2)
    IN  RangeSeq(Min2(p1[1], p2[1]), Min2(p1[2], p2[2]),
                 Min2(p1[1], p2[1]), Max2(p1[1], p2[1]),
                 Min2(p1[2], p2[2]), Max2(p1[2], p2[2]))

RangeValid(tok) == RefValid(tok.r1) /\ RefValid(tok.r2)
SeqToSet(q) == {q[i] : i \in 1..Len(q)}

\* The loop of index_to_col without the borrow: plain base 26.
RECURSIVE IndexToColFrom_NoBorrow(_, _)
IndexToColFrom_NoBorrow(idx, result) ==
    IF idx > 0
    THEN IndexToColFrom_NoBorrow(idx \div 26, <<(idx % 26) + 1>> \o result)
    ELSE result

\* index_to_col: the letters of a 0-based column index.
RECURSIVE IndexToColFrom(_, _)
IndexToColFrom(idx, result) ==
    IF idx > 0
    THEN IndexToColFrom((idx - 1) \div 26, <<((idx - 1) % 26) + 1>> \o result)
    ELSE result

index_to_col(idx) == IndexToColFrom(idx + 1, <<>>)

\* shift_refs._replace for one match: the reference moved, or
\* InvalidRefError when the moved row or column is negative.
ShiftedNegative(letters, rownum, row_delta, col_delta) ==
    col_to_index(letters) + col_delta < 0 \/ rownum - 1 + row_delta < 0

ShiftLetters(letters, col_delta) ==
    index_to_col(col_to_index(letters) + col_delta)

\* The matches of _SHIFT_REF_RE in a token: the reference of a bare
\* reference, the two endpoints of a function range.
ShiftRaises(tok, row_delta, col_delta) ==
    \/ /\ IsRef(tok) \/ IsFunc(tok)
       /\ ShiftedNegative(tok.c1, tok.r1, row_delta, col_delta)
    \/ /\ IsFunc(tok)
       /\ ShiftedNegative(tok.c2, tok.r2, row_delta, col_delta)

ShiftTok(tok, row_delta, col_delta) ==
    IF IsRef(tok)
    THEN TRef(ShiftLetters(tok.c1, col_delta), tok.r1 + row_delta)
    ELSE IF IsFunc(tok)
    THEN TFunc(tok.t, ShiftLetters(tok.c1, col_delta), tok.r1 + row_delta,
               ShiftLetters(tok.c2, col_delta), tok.r2 + row_delta)
    ELSE tok

\* _SHIFT_REF_RE.sub(_replace, formula[1:])
ShiftSub(body, row_delta, col_delta) ==
    IF \E i \in 1..Len(body) : ShiftRaises(body[i], row_delta, col_delta)
    THEN Raise("#REF")
    ELSE [ok |-> TRUE, code |-> "",
          v |-> [i \in 1..Len(body) |-> ShiftTok(body[i], row_delta, col_delta)]]

\* shift_refs that leaves alone only the references it cannot move.
shift_refs_SkipNegative(formula, row_delta, col_delta) ==
    [i \in 1..Len(formula) |->
        IF ShiftRaises(formula[i], row_delta, col_delta) THEN formula[i]
        ELSE ShiftTok(formula[i], row_delta, col_delta)]

\* shift_refs: the formula with every reference moved, or the formula as it
\* was when a moved reference would be negative.
shift_refs(formula, row_delta, col_delta) ==
    IF ShiftSub(formula, row_delta, col_delta).ok
    THEN ShiftSub(formula, row_delta, col_delta).v
    ELSE formula

\* ------------------------------------------------------------------------
\* _Parser: recursive descent over the expression text
\* ------------------------------------------------------------------------
PRes(ok, v, pos, code) == [ok |-> ok, v |-> v, pos |-> pos, code |-> code]
PFail(pos, code) == PRes(FALSE, Zero, pos, code)

Peek(text, pos) == IF pos <= Len(text) THEN text[pos].t ELSE "None"

\* _number: a digit run with at most one "."; float() of a lone "." raises
\* ValueError.
PNumber(text, pos) ==
    CASE Peek(text, pos) = "num" ->
             PRes(TRUE, <<text[pos].n, text[pos].d>>, pos + 1, "")
      [] Peek(text, pos) = "1.2.3" -> PFail(pos, "#ERROR")
      [] Peek(text, pos) = "." -> PFail(pos, "ValueError")
      [] OTHER -> PFail(pos, "#ERROR")

RECURSIVE PExpr(_, _)
RECURSIVE PExprLoop(_, _, _)
RECURSIVE PTerm(_, _)
RECURSIVE PTermLoop(_, _, _)
RECURSIVE PFactor(_, _)

\* "(" expr ")": the closing parenthesis after the inner expression e.
PClose(text, e) ==
    IF ~e.ok THEN e
    ELSE IF Peek(text, e.pos) = ")" THEN PRes(TRUE, e.v, e.pos + 1, "")
    ELSE PFail(e.pos, "#ERROR")

\* "-" factor
PNegate(f) == IF ~f.ok THEN f ELSE PRes(TRUE, RNeg(f.v), f.pos, "")

\* _factor
PFactor(text, pos) ==
    CASE Peek(text, pos) = "(" -> PClose(text, PExpr(text, pos + 1))
      [] Peek(text, pos) = "-" -> PNegate(PFactor(text, pos + 1))
      [] Peek(text, pos) = "+" -> PFactor(text, pos + 1)
      [] OTHER -> PNumber(text, pos)

\* One round of _term's loop: the operator at pos applied to left and the
\* factor right that follows it.
PTermStep(text, left, pos, right) ==
    IF ~right.ok THEN right
    ELSE IF Peek(text, pos) = "*"
         THEN PTermLoop(text, RMul(left, right.v), right.pos)
    ELSE IF right.v = Zero THEN PFail(right.pos, "#DIV/0")
    ELSE PTermLoop(text, RDiv(left, right.v), right.pos)

PTermLoop(text, left, pos) ==
    IF Peek(text, pos) \notin {"*", "/"} THEN PRes(TRUE, left, pos, "")
    ELSE PTermStep(text, left, pos, PFactor(text, pos + 1))

PTermFrom(text, left) ==
    IF ~left.ok THEN left ELSE PTermLoop(text, left.v, left.pos)

\* _term
PTerm(text, pos) == PTermFrom(text, PFactor(text, pos))

\* One round of _expr's loop.
PExprStep(text, left, pos, right) ==
    IF ~right.ok THEN right
    ELSE IF Peek(text, pos) = "+"
         THEN PExprLoop(text, RAdd(left, right.v), right.pos)
    ELSE PExprLoop(text, RSub(left, right.v), right.pos)

\* _expr taking a factor for the right operand: no precedence of * and /.
PExprLoop_NoPrecedence(text, left, pos) ==
    IF Peek(text, pos) \notin {"+", "-"} THEN PRes(TRUE, left, pos, "")
    ELSE PExprStep(text, left, pos, PFactor(text, pos + 1))

PExprLoop(text, left, pos) ==
    IF Peek(text, pos) \notin {"+", "-"} THEN PRes(TRUE, left, pos, "")
    ELSE PExprStep(text, left, pos, PTerm(text, pos + 1))

PExprFrom(text, left) ==
    IF ~left.ok THEN left ELSE PExprLoop(text, left.v, left.pos)

\* _expr
PExpr(text, pos) == PExprFrom(text, PTerm(text, pos))

\* parse: the whole text must be consumed.
ParseEnd(text, e) ==
    IF ~e.ok THEN Raise(e.code)
    ELSE IF e.pos # Len(text) + 1 THEN Raise("#ERROR")
    ELSE Ok(e.v)

\* _Parser(text).parse()
Parse(text) == IF text = <<>> THEN Raise("#ERROR") ELSE ParseEnd(text, PExpr(text, 1))

\* ------------------------------------------------------------------------
\* validate_formula
\* ------------------------------------------------------------------------
\* re.sub with a callback that returns None for a malformed reference: the
\* match is replaced by nothing, and the result is never None.
RECURSIVE SubFuncs(_)
SubFuncs(body) ==
    IF body = <<>> THEN <<>>
    ELSE LET tok == Head(body)
         IN  (IF ~IsFunc(tok) THEN <<tok>>
              ELSE IF RangeValid(tok) THEN <<TNum(0, 1)>>
              ELSE <<>>) \o SubFuncs(Tail(body))

RECURSIVE SubRefs(_)
SubRefs(body) ==
    IF body = <<>> THEN <<>>
    ELSE LET tok == Head(body)
         IN  (IF ~IsRef(tok) THEN <<tok>>
              ELSE IF RefValid(tok.r1) THEN <<TNum(0, 1)>>
              ELSE <<>>) \o SubRefs(Tail(body))

ArithToks == {"num", "1.2.3", ".", "+", "-", "*", "/", "(", ")"}

RECURSIVE ParenDepthOk(_, _, _)
ParenDepthOk(text, i, depth) ==
    IF i > Len(text) THEN depth = 0
    ELSE LET d2 == CASE text[i].t = "(" -> depth + 1
                     [] text[i].t = ")" -> depth - 1
                     [] OTHER -> depth
         IN  IF d2 < 0 THEN FALSE ELSE ParenDepthOk(text, i + 1, d2)

\* The trial parse rejecting whatever error the parser raises.
TrialParse_AnyError(p) ==
    IF p.ok THEN ""
    ELSE IF p.code = "ValueError" THEN "ValueError"
    ELSE "#ERROR"

\* The trial parse: only an #ERROR fails validation; division by zero is
\* left to evaluation; an exception that is no FormulaError escapes.
TrialParse(p) ==
    IF p.ok THEN ""
    ELSE IF p.code = "#ERROR" THEN "#ERROR"
    ELSE IF p.code = "ValueError" THEN "ValueError"
    ELSE ""

\* The checks on the text left once references are replaced by 0.
ValidateReduced(reduced) ==
    IF \E i \in 1..Len(reduced) : reduced[i].t \notin ArithToks THEN "#ERROR"
    ELSE IF ~ParenDepthOk(reduced, 1, 0) THEN "#ERROR"
    ELSE TrialParse(Parse(reduced))

\* The test of the text left once function calls are replaced by 0.
ValidateCalls(reduced) ==
    IF \E i \in 1..Len(reduced) : reduced[i].t = "call" THEN "#ERROR"
    ELSE ValidateReduced(SubRefs(reduced))

\* The result: "" for None, an error code, or "ValueError" when the trial
\* parse raises an exception validate_formula does not catch.
validate_formula(body) ==
    IF body = <<>> THEN "#ERROR" ELSE ValidateCalls(SubFuncs(body))

\* ------------------------------------------------------------------------
\* The value grid
\* ------------------------------------------------------------------------
NumRows(rows) == Len(rows)

\* max((len(r) for r in rows), default=0)
NumCols(rows) ==
    IF rows = <<>> THEN 0
    ELSE CHOOSE m \in {Len(rows[i]) : i \in 1..Len(rows)} :
             \A i \in 1..Len(rows) : Len(rows[i]) <= m

\* 0 <= r < num_rows and 0 <= c < len(rows[r])
InGrid(rows, key) ==
    /\ 0 <= key[1] /\ key[1] < Len(rows)
    /\ 0 <= key[2] /\ key[2] < Len(rows[key[1] + 1])

Cell(rows, key) == rows[key[1] + 1][key[2] + 1]

SetCell(rows, key, s) ==
    [rows EXCEPT ![key[1] + 1] = [@ EXCEPT ![key[2] + 1] = s]]

GridKeys(rows) ==
    {<<r, c>> : r \in 0..(Len(rows) - 1), c \in 0..(NumCols(rows) - 1)}

\* ------------------------------------------------------------------------
\* Sets as Python iterates them
\* ------------------------------------------------------------------------
KeyLess(a, b) == a[1] < b[1] \/ (a[1] = b[1] /\ a[2] < b[2])

\* The keys of S from the least to the greatest, and the reverse.
Ascending(S) ==
    [i \in 1..Cardinality(S) |->
        CHOOSE x \in S : Cardinality({y \in S : KeyLess(y, x)}) = i - 1]

Descending(S) ==
    [i \in 1..Cardinality(S) |->
        CHOOSE x \in S : Cardinality({y \in S : KeyLess(x, y)}) = i - 1]

RECURSIVE Perms(_)
Perms(S) ==
    IF S = {} THEN {<<>>}
    ELSE UNION {{<<x>> \o p : p \in Perms(S \ {x})} : x \in S}

\* The orders in which a set of keys may be iterated: any order; for a set of
\* more than MaxPerm keys the model explores the two sorted ones.
SetIterOrders(S) ==
    IF Cardinality(S) <= MaxPerm THEN Perms(S)
    ELSE {Ascending(S), Descending(S)}

\* ------------------------------------------------------------------------
\* extract_refs and the dependency graph
\* ------------------------------------------------------------------------
\* formula.lstrip('='): every leading "=" goes.
RECURSIVE LStripEq(_)
LStripEq(body) ==
    IF body # <<>> /\ Head(body).t = "=" THEN LStripEq(Tail(body)) ELSE body

extract_refs(formula) ==
    LET body == LStripEq(formula)
    IN  UNION {IF IsFunc(body[i]) /\ RangeValid(body[i])
                   THEN SeqToSet(expand_range(body[i]))
               ELSE IF IsRef(body[i]) /\ RefValid(body[i].r1)
                   THEN {parse_cell_ref(body[i].c1, body[i].r1)}
               ELSE {} : i \in 1..Len(body)}

\* DependencyGraph.__init__: forward
Forward(formulas) == [k \in DOMAIN formulas |-> extract_refs(formulas[k])]

\* The inner loop's body storing the key alone: self.reverse[ref] = {key}
ReverseAdd_Replaces(reverse, ref, key) == (ref :> {key}) @@ reverse

\* The inner loop's body: an entry is made for a cell read for the first
\* time, and the key is added to the cell's entry.
ReverseAdd(reverse, ref, key) ==
    IF ref \in DOMAIN reverse THEN [reverse EXCEPT ![ref] = @ \cup {key}]
    ELSE (ref :> {key}) @@ reverse

\* `for ref in refs`, over the first n of refs.
RECURSIVE ReverseOfRefs(_, _, _, _)
ReverseOfRefs(reverse, refs, n, key) ==
    IF n = 0 THEN reverse
    ELSE ReverseAdd(ReverseOfRefs(reverse, refs, n - 1, key), refs[n], key)

\* `for key, formula in formulas.items()`, over the first n of items.
RECURSIVE ReverseOfItems(_, _, _)
ReverseOfItems(forward, items, n) ==
    IF n = 0 THEN [r \in {} |-> {}]
    ELSE ReverseOfRefs(ReverseOfItems(forward, items, n - 1),
                       Ascending(forward[items[n]]),
                       Cardinality(forward[items[n]]), items[n])

\* DependencyGraph.__init__: reverse, an entry for every cell that is read
Reverse(forward) ==
    ReverseOfItems(forward, Ascending(DOMAIN forward),
                   Cardinality(DOMAIN forward))

\* self.reverse.get(cell, ())
ReverseGet(reverse, cell) ==
    IF cell \in DOMAIN reverse THEN reverse[cell] ELSE {}

\* A set of keys iterated in one of the two sorted orders.
Iterate(S, iter) == IF iter = "asc" THEN Ascending(S) ELSE Descending(S)

\* The first loop of affected: the readers of the changed cells, depth 1.
RECURSIVE Seed(_, _, _, _, _)
Seed(reverse, cells, i, st, iter) ==
    IF i > Len(cells) THEN st
    ELSE LET new == Iterate(ReverseGet(reverse, cells[i]) \ st.affected, iter)
         IN  Seed(reverse, cells, i + 1,
                  [affected |-> st.affected \cup SeqToSet(new),
                   queue |-> st.queue
                       \o [j \in 1..Len(new) |-> <<new[j], 1>>]], iter)

\* if depth >= self.MAX_DEPTH: continue
AtMaxDepth_Late(depth) == depth > MAX_DEPTH

AtMaxDepth(depth) == depth >= MAX_DEPTH

\* The while loop of affected: breadth first, no propagation from an entry
\* whose depth is MAX_DEPTH or more.
RECURSIVE Bfs(_, _, _)
Bfs(reverse, st, iter) ==
    IF st.queue = <<>> THEN st.affected
    ELSE LET cell == Head(st.queue)[1]
             depth == Head(st.queue)[2]
             rest == Tail(st.queue)
         IN  IF AtMaxDepth(depth)
             THEN Bfs(reverse, [affected |-> st.affected, queue |-> rest], iter)
             ELSE LET new == Iterate(ReverseGet(reverse, cell) \ st.affected, iter)
                  IN  Bfs(reverse,
                          [affected |-> st.affected \cup SeqToSet(new),
                           queue |-> rest
                               \o [j \in 1..Len(new) |-> <<new[j], depth + 1>>]],
                          iter)

\* The set that affected(changed) hands to _topo_sort, when the sets it
\* walks (changed_cells and the reverse entries) are iterated in order iter.
AffectedSet(formulas, changed, iter) ==
    LET reverse == Reverse(Forward(formulas))
    IN  Bfs(reverse, Seed(reverse, Iterate(changed, iter), 1,
                          [affected |-> {}, queue |-> <<>>], iter), iter)

\* in_degree counting every reference, also those to cells outside keys.
InDegree0_AllRefs(forward, keys) ==
    [k \in keys |-> Cardinality(forward[k])]

\* _topo_sort: Kahn's algorithm on keys, iterated in the order perm.
InDegree0(forward, keys) ==
    [k \in keys |-> Cardinality(forward[k] \cap keys)]

\* adj[node]: the readers of node, in the order the keys were iterated.
Adj(forward, perm, node) ==
    SelectSeq(perm, LAMBDA k : node \in forward[k])

RECURSIVE Relax(_, _, _)
Relax(nbrs, i, st) ==
    IF i > Len(nbrs) THEN st
    ELSE LET n == nbrs[i]
             deg == st.in_degree[n] - 1
         IN  Relax(nbrs, i + 1,
                   [in_degree |-> [st.in_degree EXCEPT ![n] = deg],
                    queue |-> IF deg = 0 THEN Append(st.queue, n) ELSE st.queue,
                    result |-> st.result])

RECURSIVE Kahn(_, _, _)
Kahn(forward, perm, st) ==
    IF st.queue = <<>> THEN st.result
    ELSE LET node == Head(st.queue)
         IN  Kahn(forward, perm,
                  Relax(Adj(forward, perm, node), 1,
                        [in_degree |-> st.in_degree,
                         queue |-> Tail(st.queue),
                         result |-> Append(st.result, node)]))

\* The nodes Kahn's loop orders, before the cyclic remainder is appended.
KahnOrdered(forward, perm) ==
    LET keys == SeqToSet(perm)
        deg == InDegree0(forward, keys)
    IN  Kahn(forward, perm,
             [in_degree |-> deg,
              queue |-> SelectSeq(perm, LAMBDA k : deg[k] = 0),
              result |-> <<>>])

\* _topo_sort that hands out the cyclic remainder first.
topo_sort_RemainderFirst(forward, perm) ==
    LET result == KahnOrdered(forward, perm)
    IN  SelectSeq(perm, LAMBDA k : k \notin SeqToSet(result)) \o result

topo_sort(forward, perm) ==
    LET result == KahnOrdered(forward, perm)
    IN  result \o SelectSeq(perm, LAMBDA k : k \notin SeqToSet(result))

\* ------------------------------------------------------------------------
\* evaluate and recalculate._resolve
\* ------------------------------------------------------------------------
\* ctx is what the closures of recalculate see: rows, formulas, eval_set,
\* errors, num_rows, num_cols.  cache is the memo dictionary, threaded
\* through because _resolve fills it while an evaluation is under way.
ERes(ok, v, code, cache) == [ok |-> ok, v |-> v, code |-> code, cache |-> cache]

CachePut(cache, key, v) == (key :> v) @@ cache

\* _bounds_check that lets the first row and column past the sheet through.
BoundsOk_OffByOne(ctx, key) ==
    /\ ~(ctx.num_rows # 0 /\ key[1] > ctx.num_rows)
    /\ ~(ctx.num_cols # 0 /\ key[2] > ctx.num_cols)

\* _bounds_check
BoundsOk(ctx, key) ==
    /\ ~(ctx.num_rows # 0 /\ key[1] >= ctx.num_rows)
    /\ ~(ctx.num_cols # 0 /\ key[2] >= ctx.num_cols)

\* _has_content that looks at the slot of a formula as at any other.
has_content_SlotOnly(ctx, key) ==
    InGrid(ctx.rows, key) /\ StripTruthy(Cell(ctx.rows, key))

\* recalculate._has_content
has_content(ctx, key) ==
    IF key \in DOMAIN ctx.formulas THEN TRUE
    ELSE InGrid(ctx.rows, key) /\ StripTruthy(Cell(ctx.rows, key))

\* The display value of a formula read like a plain cell's value: a text
\* that is no number gives 0.0.
ReadStale_AsPlain(ctx, key, cache) ==
    IF InGrid(ctx.rows, key) /\ Truthy(Cell(ctx.rows, key))
           /\ FloatOk(Cell(ctx.rows, key))
    THEN ERes(TRUE, FloatOf(Cell(ctx.rows, key)), "",
              CachePut(cache, key, FloatOf(Cell(ctx.rows, key))))
    ELSE ERes(TRUE, Zero, "", cache)

\* The last two branches of _resolve: the display value of a formula that is
\* not being recalculated, and the raw value of a plain cell.
ReadStale(ctx, key, cache) ==
    IF InGrid(ctx.rows, key)
    THEN LET v == Cell(ctx.rows, key)
         IN  IF Truthy(v) /\ StartsWithHash(v) THEN ERes(FALSE, Zero, v.k, cache)
             ELSE IF Truthy(v) /\ FloatOk(v)
                  THEN ERes(TRUE, FloatOf(v), "", CachePut(cache, key, FloatOf(v)))
             ELSE ERes(TRUE, Zero, "", cache)
    ELSE ERes(TRUE, Zero, "", cache)

ReadPlain(ctx, key, cache) ==
    IF InGrid(ctx.rows, key) /\ Truthy(Cell(ctx.rows, key))
           /\ FloatOk(Cell(ctx.rows, key))
    THEN ERes(TRUE, FloatOf(Cell(ctx.rows, key)), "", cache)
    ELSE ERes(TRUE, Zero, "", cache)

RSum(vals) ==
    LET F[i \in 0..Len(vals)] == IF i = 0 THEN Zero ELSE RAdd(F[i - 1], vals[i])
    IN  F[Len(vals)]

RMinSeq(vals) ==
    LET F[i \in 1..Len(vals)] == IF i = 1 THEN vals[1] ELSE RMin(F[i - 1], vals[i])
    IN  F[Len(vals)]

RMaxSeq(vals) ==
    LET F[i \in 1..Len(vals)] == IF i = 1 THEN vals[1] ELSE RMax(F[i - 1], vals[i])
    IN  F[Len(vals)]

\* The scalar a function call is replaced by, once its cells are resolved.
FuncValue(name, vals) ==
    CASE name = "SUM" -> RSum(vals)
      [] name \in {"AVG", "AVERAGE"} ->
             IF vals = <<>> THEN Zero ELSE RDiv(RSum(vals), Int2R(Len(vals)))
      [] name = "MIN" -> IF vals = <<>> THEN Zero ELSE RMinSeq(vals)
      [] name = "MAX" -> IF vals = <<>> THEN Zero ELSE RMaxSeq(vals)

\* COUNT giving the number of cells of the range.
CountValue_EveryCell(ctx, cells) == Int2R(Len(cells))

\* sum(1 for r, c in cells if has_content(r, c))
CountValue(ctx, cells) ==
    Int2R(Cardinality({i \in 1..Len(cells) : has_content(ctx, cells[i])}))

RECURSIVE resolve(_, _, _, _, _)
RECURSIVE evaluate(_, _, _, _, _)
RECURSIVE ResolveAll(_, _, _, _, _, _, _)
RECURSIVE FuncPass(_, _, _, _, _, _, _)
RECURSIVE RefPass(_, _, _, _, _, _, _)

\* resolve_cell over the cells of a range, in order; the first error ends it.
\* The result's v is the sequence of values.
ResolveNext(cells, i, vals, visiting, depth, ctx, r) ==
    IF ~r.ok THEN r
    ELSE ResolveAll(cells, i + 1, Append(vals, r.v), visiting, depth, ctx, r.cache)

ResolveAll(cells, i, vals, visiting, depth, ctx, cache) ==
    IF i > Len(cells) THEN ERes(TRUE, vals, "", cache)
    ELSE ResolveNext(cells, i, vals, visiting, depth, ctx,
                     resolve(cells[i], visiting, depth, ctx, cache))

\* The text a call is replaced by, given its resolved cells rs.
FuncResult(name, rs) ==
    IF ~rs.ok THEN ERes(FALSE, <<>>, rs.code, rs.cache)
    ELSE ERes(TRUE, NumToks(FuncValue(name, rs.v)), "", rs.cache)

\* _func_sub once the range is expanded: bounds check, then COUNT counts
\* without resolving and the other functions resolve every cell.
FuncCells(tok, cells, visiting, depth, ctx, cache) ==
    IF \E i \in 1..Len(cells) : ~BoundsOk(ctx, cells[i])
    THEN ERes(FALSE, <<>>, "#REF", cache)
    ELSE IF tok.t = "COUNT"
         THEN ERes(TRUE, NumToks(CountValue(ctx, cells)), "", cache)
    ELSE FuncResult(tok.t, ResolveAll(cells, 1, <<>>, visiting, depth, ctx, cache))

\* evaluate._func_sub on one call; v is the replacement text.
FuncSub(tok, visiting, depth, ctx, cache) ==
    IF ~RangeValid(tok) THEN ERes(FALSE, <<>>, "#REF", cache)
    ELSE FuncCells(tok, expand_range(tok), visiting, depth, ctx, cache)

FuncNext(expr, i, out, visiting, depth, ctx, r) ==
    IF ~r.ok THEN r
    ELSE FuncPass(expr, i + 1, out \o r.v, visiting, depth, ctx, r.cache)

\* _FUNC_RE.sub(_func_sub, expr), match by match from the left.
FuncPass(expr, i, out, visiting, depth, ctx, cache) ==
    IF i > Len(expr) THEN ERes(TRUE, out, "", cache)
    ELSE IF ~IsFunc(expr[i])
         THEN FuncPass(expr, i + 1, Append(out, expr[i]), visiting, depth, ctx, cache)
    ELSE FuncNext(expr, i, out, visiting, depth, ctx,
                  FuncSub(expr[i], visiting, depth, ctx, cache))

\* The last line of evaluate: _Parser(expr).parse()
EvalParse(p, cache) == ERes(p.ok, p.v, p.code, cache)

\* Whether _ref_sub, on the match at i, goes on to resolve_cell: the
\* reference parses and passes the bounds check.
RefResolves(expr, i, ctx) ==
    /\ i <= Len(expr)
    /\ IsRef(expr[i])
    /\ RefValid(expr[i].r1)
    /\ BoundsOk(ctx, parse_cell_ref(expr[i].c1, expr[i].r1))

\* _ref_sub once resolve_cell has answered r: the value is spliced in and
\* the substitution goes on, or the error ends evaluate.
RefNext(expr, i, out, visiting, depth, ctx, r) ==
    IF r.ok
    THEN RefPass(expr, i + 1, out \o NumToks(r.v), visiting, depth, ctx, r.cache)
    ELSE ERes(FALSE, Zero, r.code, r.cache)

\* The substitution where nothing is resolved: past the last token the
\* text is parsed; a token that is no reference is copied; a reference that
\* does not parse or is out of bounds is #REF.
RefOther(expr, i, out, visiting, depth, ctx, cache) ==
    IF i > Len(expr) THEN EvalParse(Parse(out), cache)
    ELSE IF ~IsRef(expr[i])
         THEN RefPass(expr, i + 1, Append(out, expr[i]), visiting, depth, ctx, cache)
    ELSE ERes(FALSE, Zero, "#REF", cache)

\* _Parser(_BARE_REF_RE.sub(_ref_sub, expr)).parse(), match by match from
\* the left.
RefPass(expr, i, out, visiting, depth, ctx, cache) ==
    IF RefResolves(expr, i, ctx)
    THEN RefNext(expr, i, out, visiting, depth, ctx,
                 resolve(parse_cell_ref(expr[i].c1, expr[i].r1),
                         visiting, depth, ctx, cache))
    ELSE RefOther(expr, i, out, visiting, depth, ctx, cache)

\* Whether the function pass f left a text for the reference pass: it
\* raised nothing and no "name(" is left over.
FuncsDone(f) == f.ok /\ ~(\E i \in 1..Len(f.v) : f.v[i].t = "call")

\* evaluate after the function pass f: a leftover "name(" is an unknown
\* function.
EvalFuncs(f, visiting, depth, ctx) ==
    IF FuncsDone(f) THEN RefPass(f.v, 1, <<>>, visiting, depth, ctx, f.cache)
    ELSE IF ~f.ok THEN ERes(FALSE, Zero, f.code, f.cache)
    ELSE ERes(FALSE, Zero, "#ERROR", f.cache)

\* evaluate(formula, resolve_cell, has_content, num_rows, num_cols), where
\* resolve_cell is _resolve with the given visiting set and depth.
evaluate(formula, visiting, depth, ctx, cache) ==
    IF LStripEq(formula) = <<>> THEN ERes(FALSE, Zero, "#ERROR", cache)
    ELSE EvalFuncs(FuncPass(LStripEq(formula), 1, <<>>, visiting, depth, ctx, cache),
                   visiting, depth, ctx)

\* Whether _resolve gives up on depth.
DepthExceeded(depth) == depth > MAX_DEPTH

\* cache[key] = val, when the evaluation e returned.
CacheResult(key, e) ==
    IF e.ok THEN ERes(TRUE, e.v, "", CachePut(e.cache, key, e.v)) ELSE e

\* Whether _resolve reaches its call of evaluate: none of the four early
\* exits is taken and the key is a formula being recalculated.
Evaluates(key, visiting, depth, ctx, cache) ==
    /\ ~DepthExceeded(depth)
    /\ key \notin DOMAIN ctx.errors
    /\ key \notin DOMAIN cache
    /\ key \notin visiting
    /\ key \in DOMAIN ctx.formulas
    /\ key \in ctx.eval_set

\* _resolve where it does not evaluate, raising a plain FormulaError where
\* it meets the key it is resolving.
Answer_CycleAsError(key, visiting, depth, ctx, cache) ==
    IF DepthExceeded(depth) THEN ERes(FALSE, Zero, "#ERROR", cache)
    ELSE IF key \in DOMAIN ctx.errors THEN ERes(FALSE, Zero, ctx.errors[key], cache)
    ELSE IF key \in DOMAIN cache THEN ERes(TRUE, cache[key], "", cache)
    ELSE IF key \in visiting THEN ERes(FALSE, Zero, "#ERROR", cache)
    ELSE IF key \in DOMAIN ctx.formulas THEN ReadStale(ctx, key, cache)
    ELSE ReadPlain(ctx, key, cache)

\* _resolve where it does not evaluate: the depth cap, a recorded error, a
\* cached value, a cycle, the display value of a formula that is not being
\* recalculated, the raw value of a plain cell.
Answer(key, visiting, depth, ctx, cache) ==
    IF DepthExceeded(depth) THEN ERes(FALSE, Zero, "#ERROR", cache)
    ELSE IF key \in DOMAIN ctx.errors THEN ERes(FALSE, Zero, ctx.errors[key], cache)
    ELSE IF key \in DOMAIN cache THEN ERes(TRUE, cache[key], "", cache)
    ELSE IF key \in visiting THEN ERes(FALSE, Zero, "#CYCLE", cache)
    ELSE IF key \in DOMAIN ctx.formulas THEN ReadStale(ctx, key, cache)
    ELSE ReadPlain(ctx, key, cache)

\* recalculate._resolve
resolve(key, visiting, depth, ctx, cache) ==
    IF Evaluates(key, visiting, depth, ctx, cache)
    THEN CacheResult(key, evaluate(ctx.formulas[key], visiting \cup {key},
                                   depth + 1, ctx, cache))
    ELSE Answer(key, visiting, depth, ctx, cache)

\* ------------------------------------------------------------------------
\* recalculate
\* ------------------------------------------------------------------------
EmptyMap == [k \in {} |-> Zero]
NoErrors == [k \in {} |-> ""]

\* The test made against the sheet bounds instead of the row's own length.
KeyInGrid_Bounds(rows, key) ==
    /\ 0 <= key[1] /\ key[1] < NumRows(rows)
    /\ 0 <= key[2] /\ key[2] < NumCols(rows)

\* The loop's test that sends a key outside the grid to `continue`.
KeyInGrid(rows, key) == InGrid(rows, key)

\* The assignment made to every slot of the row: rows[r] = [text] * len(rows[r])
WriteCell_WholeRow(st, key, text, code) ==
    IF InGrid(st.rows, key)
    THEN [st EXCEPT !.rows = [st.rows EXCEPT ![key[1] + 1] =
                                  [c \in 1..Len(st.rows[key[1] + 1]) |-> text]],
                    !.errors = IF code = "" THEN st.errors
                               ELSE (key :> code) @@ st.errors]
    ELSE [st EXCEPT !.raised = TRUE]

\* rows[r][c] = text.  Outside the grid the assignment raises IndexError, in
\* the try block and again in the handler that would record it.
WriteCell(st, key, text, code) ==
    IF InGrid(st.rows, key)
    THEN [st EXCEPT !.rows = SetCell(st.rows, key, text),
                    !.errors = IF code = "" THEN st.errors
                               ELSE (key :> code) @@ st.errors]
    ELSE [st EXCEPT !.raised = TRUE]

\* The code an exception leaves in the cell: e.code for a FormulaError,
\* "#ERROR" for any other Exception.
CaughtCode(code) == IF code = "ValueError" THEN "#ERROR" ELSE code

\* The handler recording the code without writing it into the cell.
WriteError_RecordOnly(st, key, code) ==
    IF InGrid(st.rows, key)
    THEN [st EXCEPT !.errors = (key :> CaughtCode(code)) @@ st.errors]
    ELSE [st EXCEPT !.raised = TRUE]

\* rows[r][c] = code; errors[key] = code
WriteError(st, key, code) ==
    WriteCell(st, key, CodeStr(CaughtCode(code)), CaughtCode(code))

\* The end of the try block, given what _resolve did: the value is
\* formatted into the cell, or the error's code is.
StoreResult(st, key, r) ==
    IF r.ok THEN WriteCell([st EXCEPT !.cache = r.cache], key, format_result(r.v), "")
    ELSE WriteError([st EXCEPT !.cache = r.cache], key, r.code)

\* What the closures _resolve and _has_content see.
Closure(st, formulas, eval_set, num_rows, num_cols) ==
    [rows |-> st.rows, formulas |-> formulas, eval_set |-> eval_set,
     errors |-> st.errors, num_rows |-> num_rows, num_cols |-> num_cols]

\* The try block, given validate_formula's answer.
TryCell(key, st, formulas, eval_set, num_rows, num_cols, syntax_err) ==
    IF syntax_err # "" THEN WriteError(st, key, syntax_err)
    ELSE StoreResult(st, key,
             resolve(key, {}, 0,
                     Closure(st, formulas, eval_set, num_rows, num_cols),
                     st.cache))

\* One pass of the loop `for key in eval_order`.
RecalcStep(key, st, formulas, eval_set, num_rows, num_cols) ==
    IF ~KeyInGrid(st.rows, key) THEN st
    ELSE TryCell(key, st, formulas, eval_set, num_rows, num_cols,
                 validate_formula(formulas[key]))

RECURSIVE RecalcLoop(_, _, _, _, _, _)
RecalcLoop(eval_order, i, st, formulas, num_rows, num_cols) ==
    IF i > Len(eval_order) \/ st.raised THEN st
    ELSE RecalcLoop(eval_order, i + 1,
                    RecalcStep(eval_order[i], st, formulas, SeqToSet(eval_order),
                               num_rows, num_cols),
                    formulas, num_rows, num_cols)

\* The keys _topo_sort is given: every formula key (changed_cells is None),
\* or affected(changed_cells).
EvalKeys(formulas, full, changed, iter) ==
    IF full THEN DOMAIN formulas ELSE AffectedSet(formulas, changed, iter)

\* recalculate(rows, formulas, changed_cells), with the keys of the sorted
\* set iterated in the order perm.  full stands for changed_cells = None.
\* The result: the grid, the evaluation order, the errors recorded, and
\* whether an exception reached the caller.
RecalcState(rows, eval_order) ==
    [rows |-> rows, cache |-> EmptyMap, errors |-> NoErrors,
     raised |-> FALSE, order |-> eval_order]

RecalcOrder(rows, formulas, eval_order) ==
    IF eval_order = <<>> THEN RecalcState(rows, <<>>)
    ELSE RecalcLoop(eval_order, 1, RecalcState(rows, eval_order), formulas,
                    NumRows(rows), NumCols(rows))

\* recalculate that takes an empty changed_cells for None: a full pass.
recalculate_EmptyIsNone(rows, formulas, full, changed, perm) ==
    IF DOMAIN formulas = {} THEN RecalcState(rows, <<>>)
    ELSE RecalcOrder(rows, formulas,
                     topo_sort(Forward(formulas),
                               IF ~full /\ changed = {}
                               THEN Ascending(DOMAIN formulas) ELSE perm))

recalculate(rows, formulas, full, changed, perm) ==
    IF DOMAIN formulas = {} THEN RecalcState(rows, <<>>)
    ELSE IF ~full /\ changed = {} THEN RecalcState(rows, <<>>)
    ELSE RecalcOrder(rows, formulas, topo_sort(Forward(formulas), perm))

\* ------------------------------------------------------------------------
\* Inputs of the model
\* ------------------------------------------------------------------------
LA == <<1>>
LB == <<2>>
LC == <<3>>
LD == <<4>>

\* Plain cell values: "", "0", "2", "abc".
PlainVals == {Empty, NumStr(<<0, 1>>), NumStr(<<2, 1>>), Word}

\* Formulas of the one-row sheets (cells A1, B1, C1; D1 is out of bounds).
\* For A1: =A1 =B1 =C1 =B1+ =4/0.
AFormulas ==
    {<<TRef(l, 1)>> : l \in {LA, LB, LC}}
    \cup {<<TRef(LB, 1), TOp("+")>>,
          <<TNum(4, 1), TOp("/"), TNum(0, 1)>>}

\* For B1: =A1 =C1 =A1+C1 =4/0.
BFormulas ==
    {<<TRef(l, 1)>> : l \in {LA, LC}}
    \cup {<<TRef(LA, 1), TOp("+"), TRef(LC, 1)>>,
          <<TNum(4, 1), TOp("/"), TNum(0, 1)>>}

\* For C1: =A1 =B1 =D1 =A0 =A1/B1 =A1+ =. and FUNC(A1:B1).
CFormulas ==
    {<<TRef(l, 1)>> : l \in {LA, LB, LD}}
    \cup {<<TRef(LA, 0)>>,
          <<TRef(LA, 1), TOp("/"), TRef(LB, 1)>>,
          <<TRef(LA, 1), TOp("+")>>,
          <<TDot>>}
    \cup {<<TFunc(f, LA, 1, LB, 1)>> : f \in FuncNames}

\* An input for one cell: a plain value or a formula text.
Plain(s) == [isf |-> FALSE, s |-> s, body |-> <<>>]
Fml(body) == [isf |-> TRUE, s |-> Empty, body |-> body]

AChoices == {Plain(NumStr(<<2, 1>>))} \cup {Fml(b) : b \in AFormulas}
BChoices == {Plain(v) : v \in PlainVals} \cup {Fml(b) : b \in BFormulas}
CChoices == {Plain(NumStr(<<2, 1>>))} \cup {Fml(b) : b \in CFormulas}

\* The grid and formula map made of per-cell inputs; shape gives each row's
\* length, a formula's slot holds `slot`, a key outside the grid has no slot.
MakeRows(shape, cells, slot) ==
    [r \in 1..Len(shape) |->
        [c \in 1..shape[r] |->
            LET x == cells[<<r - 1, c - 1>>]
            IN  IF x.isf THEN slot ELSE x.s]]

MakeFormulas(cells) ==
    [k \in {k \in DOMAIN cells : cells[k].isf} |-> cells[k].body]

\* One-row sheets [[A1, B1, C1]].
RowSheets ==
    {[shape |-> <<3>>,
      cells |-> [k \in {<<0, 0>>, <<0, 1>>, <<0, 2>>} |->
                    IF k = <<0, 0>> THEN a
                    ELSE IF k = <<0, 1>> THEN b ELSE c]] :
        a \in AChoices, b \in BChoices, c \in CChoices}

\* Ragged sheets [[A1, B1], [A2]]: B2 lies inside the bounds and outside the
\* grid, A3 outside both; either may be a formula key.  The formulas of A1
\* and A2: =B2 =SUM(A1:B2) =COUNT(A1:B2), and =A3 =COUNT(A1:A3)
\* =MAX(A1:C2), which name a row or a column out of bounds.
RaggedFormulas ==
    {<<TRef(LB, 2)>>, <<TFunc("SUM", LA, 1, LB, 2)>>,
     <<TFunc("COUNT", LA, 1, LB, 2)>>,
     <<TRef(LA, 3)>>, <<TFunc("COUNT", LA, 1, LA, 3)>>,
     <<TFunc("MAX", LA, 1, LC, 2)>>}
RaggedChoices ==
    {Plain(NumStr(<<2, 1>>))} \cup {Fml(b) : b \in RaggedFormulas}
HoleChoices ==
    {Plain(Empty), Fml(<<TRef(LA, 1)>>), Fml(<<TRef(LB, 2)>>)}
RaggedSheets ==
    {[shape |-> <<2, 1>>,
      cells |-> [k \in {<<0, 0>>, <<0, 1>>, <<1, 0>>, <<1, 1>>, <<2, 0>>} |->
                    IF k = <<0, 1>> THEN Plain(NumStr(<<2, 1>>))
                    ELSE IF k = <<1, 1>> THEN h
                    ELSE IF k = <<2, 0>> THEN o
                    ELSE cs[k]]] :
        cs \in [{<<0, 0>>, <<1, 0>>} -> RaggedChoices],
        h \in HoleChoices, o \in {Plain(Empty), Fml(<<TRef(LA, 1)>>)}}

\* Chain sheets: one column of ChainRows rows; row i reads row i - 1, so the
\* formula in row i is i - 1 hops from A1 and the last one MAX_DEPTH + 1.
ChainRows == MAX_DEPTH + 2
ChainHeads ==
    {Plain(NumStr(<<2, 1>>)), Plain(Empty),
     Fml(<<TNum(4, 1), TOp("/"), TNum(0, 1)>>)}
\* Row 2: =A1 or =4/A1.
ChainSeconds ==
    {Fml(<<TRef(LA, 1)>>), Fml(<<TNum(4, 1), TOp("/"), TRef(LA, 1)>>)}
ChainTails ==
    {Fml(<<TRef(LA, ChainRows - 1)>>),
     Fml(<<TRef(LA, ChainRows - 1), TOp("+"), TRef(LA, 1)>>),
     Plain(NumStr(<<2, 1>>))}
ChainSheets ==
    {[shape |-> [r \in 1..ChainRows |-> 1],
      cells |-> [k \in {<<r, 0>> : r \in 0..(ChainRows - 1)} |->
                    IF k[1] = 0 THEN h
                    ELSE IF k[1] = 1 THEN s
                    ELSE IF k[1] = ChainRows - 1 THEN t
                    ELSE Fml(<<TRef(LA, k[1])>>)]] :
        h \in ChainHeads, s \in ChainSeconds, t \in ChainTails}

\* Ragged chain sheets [[A1, ..., U1], [A2]]: row 2 has one slot and a
\* formula key in each of the MAX_DEPTH columns B to U that have none; A2
\* reads B2, each key without a slot reads the next, and U2 reads A1.
HoleChainCols == MAX_DEPTH + 1
HoleChainSheets ==
    {[shape |-> <<HoleChainCols, 1>>,
      cells |-> [k \in {<<r, c>> : r \in 0..1, c \in 0..(HoleChainCols - 1)} |->
                    IF k = <<0, 0>> THEN h
                    ELSE IF k[1] = 0 THEN Plain(Empty)
                    ELSE IF k[2] = HoleChainCols - 1 THEN Fml(<<TRef(LA, 1)>>)
                    ELSE Fml(<<TRef(index_to_col(k[2] + 1), 2)>>)]] :
        h \in {Plain(NumStr(<<2, 1>>)), Plain(Empty)}}

Sheets == RowSheets \cup RaggedSheets \cup ChainSheets


\* ------------------------------------------------------------------------
\* The sheet and its handlers
\* ------------------------------------------------------------------------
VARIABLES
    columns,   \* the sheet's columns: the type of each
    rows,      \* the value grid: rows of display strings
    formulas,  \* the formula map: cell key -> formula body
    call,      \* the last call of recalculate: its inputs and what it did
    edits,     \* handler calls so far
    probe      \* the last call of a function on its own: argument, result

vars == <<columns, rows, formulas, call, edits, probe>>

\* No function has been called on its own.
NoProbe == [fn |-> "none"]

\* The record of a call of recalculate: the handler, the value it was asked
\* to store and the formula map it found, changed_cells (full stands for
\* None; with full, the cell the handler was called for), the grid it was
\* given, the evaluation order, whether an exception reached the caller,
\* whether the formula slots held the results of a full recalculation
\* before the handler edited the sheet, and the grids a full recalculation
\* of the same inputs can give.
CallRec(op, x, was, full, changed, pre, res, clean, shadows) ==
    [op |-> op, value |-> x, was |-> was, full |-> full, changed |-> changed,
     pre |-> pre, order |-> res.order, raised |-> res.raised,
     clean |-> clean, shadows |-> shadows]

\* The handler stores no value.
NoValue == Plain(Empty)

\* The grids recalculate(rows, formulas, None) can leave, one per
\* iteration order of the key set.
FullGrids(rs, fm) ==
    {recalculate(rs, fm, TRUE, {}, perm).rows :
        perm \in SetIterOrders(EvalKeys(fm, TRUE, {}, "asc"))}

\* The sheet as create() stores it.
Created(rows0, fm, res) ==
    /\ rows = res.rows
    /\ formulas = fm
    /\ call = CallRec("create", NoValue, EmptyMap, TRUE, {}, rows0, res,
                       FALSE, {res.rows})
    /\ edits = 0
    /\ probe = NoProbe

CreateSheet(rows0, fm) ==
    \E perm \in SetIterOrders(EvalKeys(fm, TRUE, {}, "asc")) :
        Created(rows0, fm, recalculate(rows0, fm, TRUE, {}, perm))

\* SheetRepository.create: a full recalculation when there are formulas.
Init ==
    \E sh \in Sheets :
        /\ columns = [c \in 1..NumCols(MakeRows(sh.shape, sh.cells, Empty)) |->
                          "text"]
        /\ CreateSheet(MakeRows(sh.shape, sh.cells, Empty),
                       MakeFormulas(sh.cells))

\* The cells a handler is asked to edit: any cell of a small grid, the two
\* ends of a long column or row.
EditKeys ==
    {k \in GridKeys(rows) : InGrid(rows, k)
        /\ (Len(rows) > 2 => k[1] \in {0, Len(rows) - 1})}

UpdateValues == {NumStr(<<4, 1>>)}
UpdateFormulas == {<<TRef(LB, 1)>>}
PasteValues == {NumStr(<<0, 1>>)}
PasteFormulas == {<<TRef(LB, 1)>>}

RemoveKey(fm, key) == [k \in DOMAIN fm \ {key} |-> fm[k]]
PutKey(fm, key, body) == (key :> body) @@ fm

\* SheetRepository.validate_cell for the column types text and number: ""
\* stands for None.
validate_cell(value, col_type) ==
    IF ~Truthy(value) THEN ""
    ELSE IF col_type = "number" /\ ~FloatOk(value) THEN "Invalid number"
    ELSE ""

\* The edit both handlers make for one value: a formula is stored and its
\* slot cleared; any other value is stored and the key's formula removed.
EditRows(rs, key, x) == SetCell(rs, key, IF x.isf THEN Empty ELSE x.s)
\* The edit that leaves the key's formula in place under a plain value.
EditFormulas_KeepsOld(fm, key, x) ==
    IF x.isf THEN PutKey(fm, key, x.body) ELSE fm

EditFormulas(fm, key, x) ==
    IF x.isf THEN PutKey(fm, key, x.body) ELSE RemoveKey(fm, key)

\* Whether the grid holds the results of a full recalculation: the last
\* call was one and returned, or it was given no changed cell and the grid
\* held them before.
Clean ==
    IF call.full THEN ~call.raised ELSE call.changed = {} /\ call.clean

\* The sheet as _save stores it after recalculate has run.
Saved(op, x, full, key, rows1, fm, res, shadows) ==
    /\ rows' = res.rows
    /\ formulas' = fm
    /\ call' = CallRec(op, x, formulas, full, {key}, rows1, res, Clean,
                        shadows)
    /\ edits' = edits + 1
    /\ probe' = probe

SavedFull(op, x, key, rows1, fm, res) ==
    Saved(op, x, TRUE, key, rows1, fm, res, {res.rows})

\* _save with changed_cells = None
SaveFull(op, x, key, rows1, fm) ==
    \E perm \in SetIterOrders(EvalKeys(fm, TRUE, {}, "asc")) :
        SavedFull(op, x, key, rows1, fm,
                  recalculate(rows1, fm, TRUE, {}, perm))

\* _save with changed_cells = {key}
SaveTargeted(op, x, key, rows1, fm) ==
    \E iter \in {"asc", "desc"} :
    \E perm \in SetIterOrders(EvalKeys(fm, FALSE, {key}, iter)) :
        Saved(op, x, FALSE, key, rows1, fm,
              recalculate(rows1, fm, FALSE, {key}, perm), FullGrids(rows1, fm))

\* SheetRepository.update_cell, with _save's full recalculation.
UpdateCell(key, x) ==
    /\ InGrid(rows, key)
    /\ x.isf \/ validate_cell(x.s, columns[key[2] + 1]) = ""
    /\ SaveFull("update_cell", x, key, EditRows(rows, key, x),
                EditFormulas(formulas, key, x))
    /\ UNCHANGED columns

\* paste_cells for one value pasted without a source position (no shift of
\* references), with _save's targeted recalculation of the pasted keys.
PasteCell(key, x) ==
    /\ InGrid(rows, key)
    /\ SaveTargeted("paste", x, key, EditRows(rows, key, x),
                    EditFormulas(formulas, key, x))
    /\ UNCHANGED columns

\* duplicate_row: rows.insert(row_index + 1, list(rows[row_index]))
DuplicatedRows(rs, row_index) ==
    SubSeq(rs, 1, row_index + 1) \o <<rs[row_index + 1]>>
        \o SubSeq(rs, row_index + 2, Len(rs))

NoFormulas == [k \in {} |-> <<>>]

\* One round of duplicate_row's loop that moves the duplicated row's own
\* formulas down as well.
DuplicateItem_MovesRow(new, key, val, row_index) ==
    PutKey(PutKey(new, IF key[1] >= row_index THEN <<key[1] + 1, key[2]>>
                       ELSE key, val),
           IF key[1] = row_index THEN <<row_index + 1, key[2]>> ELSE key, val)

\* One round of duplicate_row's loop over the formula map: the key is moved
\* down when its row is below the duplicated one and kept otherwise, and a
\* formula of the duplicated row is stored under the new row as well.
DuplicateItem(new, key, val, row_index) ==
    IF key[1] > row_index THEN PutKey(new, <<key[1] + 1, key[2]>>, val)
    ELSE IF key[1] = row_index
    THEN PutKey(PutKey(new, key, val), <<row_index + 1, key[2]>>, val)
    ELSE PutKey(new, key, val)

\* The loop, over the items of the map in the order items.
RECURSIVE DuplicateFrom(_, _, _, _, _)
DuplicateFrom(fm, items, i, row_index, new) ==
    IF i > Len(items) THEN new
    ELSE DuplicateFrom(fm, items, i + 1, row_index,
                       DuplicateItem(new, items[i], fm[items[i]], row_index))

DuplicatedFormulas(fm, items, row_index) ==
    DuplicateFrom(fm, items, 1, row_index, NoFormulas)

\* _shift_formulas: the key's position on the axis, and the key with
\* another one.
AxisPos(key, axis) == IF axis = "row" THEN key[1] ELSE key[2]
WithAxisPos(key, axis, pos) ==
    IF axis = "row" THEN <<pos, key[2]>> ELSE <<key[1], pos>>

\* The new position that leaves a formula at the inserted index where it is.
ShiftPos_InsertAfter(pos, index, delta) ==
    IF delta = -1 /\ pos > index THEN pos - 1
    ELSE IF delta = 1 /\ pos > index THEN pos + 1
    ELSE pos

\* The new position of a formula that is kept.
ShiftPos(pos, index, delta) ==
    IF delta = -1 /\ pos > index THEN pos - 1
    ELSE IF delta = 1 /\ pos >= index THEN pos + 1
    ELSE pos

\* One round of the loop that keeps the formula at the deleted position
\* where it is.
ShiftItem_KeepsDeleted(new, key, val, axis, index, delta) ==
    PutKey(new,
           WithAxisPos(key, axis, ShiftPos(AxisPos(key, axis), index, delta)),
           val)

\* One round of the loop: the formula at the deleted position is skipped,
\* any other is stored under its new key.
ShiftItem(new, key, val, axis, index, delta) ==
    IF delta = -1 /\ AxisPos(key, axis) = index THEN new
    ELSE PutKey(new,
                WithAxisPos(key, axis, ShiftPos(AxisPos(key, axis), index, delta)),
                val)

RECURSIVE ShiftItemsFrom(_, _, _, _, _, _, _)
ShiftItemsFrom(fm, items, i, axis, index, delta, new) ==
    IF i > Len(items) THEN new
    ELSE ShiftItemsFrom(fm, items, i + 1, axis, index, delta,
                        ShiftItem(new, items[i], fm[items[i]], axis, index, delta))

\* _shift_formulas(formulas, axis, index, delta), the items of the map
\* taken in the order items.
shift_formulas(fm, items, axis, index, delta) ==
    ShiftItemsFrom(fm, items, 1, axis, index, delta, NoFormulas)

\* The rows a handler is asked to duplicate: those of the cells it is asked
\* to edit.
EditRowIndexes == {k[1] : k \in EditKeys}

\* SheetRepository.duplicate_row, with _save's full recalculation.  The
\* call record names the first cell of the duplicated row.
DuplicateRow(row_index) ==
    /\ 0 <= row_index /\ row_index < Len(rows)
    /\ \E items \in SetIterOrders(DOMAIN formulas) :
           SaveFull("duplicate_row", NoValue, <<row_index, 0>>,
                    DuplicatedRows(rows, row_index),
                    DuplicatedFormulas(formulas, items, row_index))
    /\ UNCHANGED columns

\* paste_cells with no data: no cell is edited and _save is given the empty
\* set of changed cells.  The behaviours explored end with it.
PastedNothing(res) ==
    /\ rows' = res.rows
    /\ formulas' = formulas
    /\ call' = CallRec("paste_nothing", NoValue, formulas, FALSE, {}, rows,
                        res, Clean, {})
    /\ edits' = MaxEdits + 1
    /\ probe' = probe
    /\ UNCHANGED columns

PasteNothing ==
    /\ edits <= MaxEdits
    /\ PastedNothing(recalculate(rows, formulas, FALSE, {}, <<>>))

Next ==
    \/ /\ edits < MaxEdits
       /\ \E key \in EditKeys, v \in UpdateValues : UpdateCell(key, Plain(v))
    \/ /\ edits < MaxEdits
       /\ \E key \in EditKeys, b \in UpdateFormulas : UpdateCell(key, Fml(b))
    \/ /\ edits < MaxEdits
       /\ \E key \in EditKeys, v \in PasteValues : PasteCell(key, Plain(v))
    \/ /\ edits < MaxEdits
       /\ \E key \in EditKeys, b \in PasteFormulas : PasteCell(key, Fml(b))
    \/ PasteNothing
    \/ /\ edits < MaxEdits
       /\ \E row_index \in EditRowIndexes : DuplicateRow(row_index)

Spec == Init /\ [][Next]_vars

\* ------------------------------------------------------------------------
\* The sheet under structural edits: rows and columns inserted, deleted,
\* moved and sorted
\* ------------------------------------------------------------------------
\* list.pop(i) and list.insert(i, x) for 0 <= i; insert past the end appends.
ListPop(q, i) == SubSeq(q, 1, i) \o SubSeq(q, i + 2, Len(q))
ListInsert(q, i, x) ==
    SubSeq(q, 1, Min2(i, Len(q))) \o <<x>> \o SubSeq(q, Min2(i, Len(q)) + 1, Len(q))

\* {old: new for new, old in enumerate(order)}
OldToNew(order) ==
    [old \in SeqToSet(order) |->
        (CHOOSE new \in 1..Len(order) : order[new] = old) - 1]

\* One round of the loop of move_column and sort_by_column over the formula
\* map: a key whose position on the axis is in old_to_new is stored under
\* its new position, any other is dropped.
RemapItem_KeepsPlace(new, key, val, axis, old_to_new) ==
    IF AxisPos(key, axis) \in DOMAIN old_to_new THEN PutKey(new, key, val)
    ELSE new

RemapItem(new, key, val, axis, old_to_new) ==
    IF AxisPos(key, axis) \in DOMAIN old_to_new
    THEN PutKey(new, WithAxisPos(key, axis, old_to_new[AxisPos(key, axis)]), val)
    ELSE new

RECURSIVE RemapFrom(_, _, _, _, _, _)
RemapFrom(fm, items, i, axis, old_to_new, new) ==
    IF i > Len(items) THEN new
    ELSE RemapFrom(fm, items, i + 1, axis, old_to_new,
                   RemapItem(new, items[i], fm[items[i]], axis, old_to_new))

RemappedFormulas(fm, items, axis, old_to_new) ==
    RemapFrom(fm, items, 1, axis, old_to_new, NoFormulas)

\* SheetRepository.insert_row_at, with _save's full recalculation.  The call
\* record names the row asked for.
InsertRowAt(row_index) ==
    LET idx == Max2(0, Min2(row_index, Len(rows)))
    IN  /\ \E items \in SetIterOrders(DOMAIN formulas) :
               SaveFull("insert_row_at", NoValue, <<row_index, 0>>,
                        ListInsert(rows, idx, [c \in 1..Len(columns) |-> Empty]),
                        shift_formulas(formulas, items, "row", idx, 1))
        /\ UNCHANGED columns

\* SheetRepository.delete_row
DeleteRow(row_index) ==
    /\ 0 <= row_index /\ row_index < Len(rows)
    /\ \E items \in SetIterOrders(DOMAIN formulas) :
           SaveFull("delete_row", NoValue, <<row_index, 0>>,
                    ListPop(rows, row_index),
                    shift_formulas(formulas, items, "row", row_index, -1))
    /\ UNCHANGED columns

\* SheetRepository.delete_column
DeleteColumn(col_index) ==
    /\ 0 <= col_index /\ col_index < Len(columns)
    /\ columns' = ListPop(columns, col_index)
    /\ \E items \in SetIterOrders(DOMAIN formulas) :
           SaveFull("delete_column", NoValue, <<0, col_index>>,
                    [r \in 1..Len(rows) |->
                        IF col_index < Len(rows[r])
                        THEN ListPop(rows[r], col_index) ELSE rows[r]],
                    shift_formulas(formulas, items, "col", col_index, -1))

\* move_column: order = list(range(n)) with from_index popped and inserted
\* at to_index.
MovedOrder(n, from_index, to_index) ==
    ListInsert(ListPop([i \in 1..n |-> i - 1], from_index), to_index, from_index)

\* SheetRepository.move_column.  The call record names the two columns.
MoveColumn(from_index, to_index) ==
    /\ 0 <= from_index /\ from_index < Len(columns)
    /\ 0 <= to_index /\ to_index < Len(columns)
    /\ columns' = ListInsert(ListPop(columns, from_index), to_index,
                             columns[from_index + 1])
    /\ \E items \in SetIterOrders(DOMAIN formulas) :
           SaveFull("move_column", NoValue, <<from_index, to_index>>,
                    [r \in 1..Len(rows) |->
                        IF from_index < Len(rows[r])
                        THEN ListInsert(ListPop(rows[r], from_index), to_index,
                                        rows[r][from_index + 1])
                        ELSE rows[r]],
                    RemappedFormulas(formulas, items, "col",
                        OldToNew(MovedOrder(Len(columns), from_index, to_index))))

\* The text of a display string, as character codes.
CodeChars(k) ==
    CASE k = "" -> <<>>
      [] k = " " -> <<32>>
      [] k = "abc" -> <<97, 98, 99>>
      [] k = "#ERROR" -> <<35, 69, 82, 82, 79, 82>>
      [] k = "#DIV/0" -> <<35, 68, 73, 86, 47, 48>>
      [] k = "#REF" -> <<35, 82, 69, 70>>
      [] k = "#CYCLE" -> <<35, 67, 89, 67, 76, 69>>
      [] k = "#N/A" -> <<35, 78, 47, 65>>

RECURSIVE IntChars(_)
IntChars(n) ==
    IF n < 10 THEN <<48 + n>> ELSE IntChars(n \div 10) \o <<48 + (n % 10)>>

RECURSIVE FracChars(_, _)
FracChars(rem, d) ==
    IF rem = 0 THEN <<>>
    ELSE <<48 + ((rem * 10) \div d)>> \o FracChars((rem * 10) % d, d)

NumChars(n, d) ==
    (IF n < 0 THEN <<45>> ELSE <<>>)
    \o IntChars(Abs(n) \div d)
    \o (IF Abs(n) % d = 0 THEN <<>> ELSE <<46>> \o FracChars(Abs(n) % d, d))

Chars(s) == IF s.k = "num" THEN NumChars(s.n, s.d) ELSE CodeChars(s.k)

\* str.lower()
Lower(chars) ==
    [i \in 1..Len(chars) |->
        IF 65 <= chars[i] /\ chars[i] <= 90 THEN chars[i] + 32 ELSE chars[i]]

\* a < b for two strings
TextLess(a, b) ==
    \E i \in 1..Len(b) :
        /\ i - 1 <= Len(a)
        /\ \A j \in 1..(i - 1) : a[j] = b[j]
        /\ i > Len(a) \/ a[i] < b[i]

\* sort_by_column.sort_key: (0, float), (0, text) or (1, text)
SortKey(cls, num, text) == [cls |-> cls, num |-> num, text |-> text]

sort_key(row, col_index, col_type) ==
    LET val == IF col_index < Len(row) THEN row[col_index + 1] ELSE Empty
    IN  IF ~Truthy(val) THEN SortKey(1, Zero, <<>>)
        ELSE IF col_type = "number"
        THEN IF FloatOk(val) THEN SortKey(0, FloatOf(val), <<>>)
             ELSE SortKey(1, Zero, Chars(val))
        ELSE SortKey(0, Zero, Lower(Chars(val)))

\* a < b for two keys; keys of one class hold floats or hold texts.
SortKeyLess(a, b) ==
    \/ a.cls < b.cls
    \/ a.cls = b.cls /\ (RLess(a.num, b.num) \/ TextLess(a.text, b.text))

\* list.sort(key=sort_key, reverse=not ascending) on list(enumerate(rows)):
\* the old indexes in their new order; rows of equal keys keep their order.
SortedIndexes(rs, col_index, col_type, ascending) ==
    LET Ahead(i, j) ==
            LET a == sort_key(rs[i], col_index, col_type)
                b == sort_key(rs[j], col_index, col_type)
            IN  \/ IF ascending THEN SortKeyLess(a, b) ELSE SortKeyLess(b, a)
                \/ a = b /\ i < j
    IN  [p \in 1..Len(rs) |->
            (CHOOSE i \in 1..Len(rs) :
                Cardinality({j \in 1..Len(rs) : Ahead(j, i)}) = p - 1) - 1]

\* SheetRepository.sort_by_column.  The call record names the column.
SortByColumn(col_index, ascending) ==
    /\ 0 <= col_index /\ col_index < Len(columns)
    /\ LET indexed == SortedIndexes(rows, col_index, columns[col_index + 1],
                                    ascending)
       IN  \E items \in SetIterOrders(DOMAIN formulas) :
               SaveFull("sort_by_column", NoValue, <<0, col_index>>,
                        [p \in 1..Len(rows) |-> rows[indexed[p] + 1]],
                        RemappedFormulas(formulas, items, "row",
                                         OldToNew(indexed)))
    /\ UNCHANGED columns

\* Rectangular sheets of two rows and three columns, all of one type:
\* [[A1, 4, C1], [A2, =A2, 10]] with A1 one of 2 and =B1, C1 one of "" and
\* =A1+B1, A2 one of 0 and =4/0.
GridTypes == {"text", "number"}
GridCells ==
    {[k \in {<<r, c>> : r \in 0..1, c \in 0..2} |->
        IF k = <<0, 0>> THEN a1
        ELSE IF k = <<0, 1>> THEN Plain(NumStr(<<4, 1>>))
        ELSE IF k = <<0, 2>> THEN c1
        ELSE IF k = <<1, 0>> THEN a2
        ELSE IF k = <<1, 1>> THEN Fml(<<TRef(LA, 2)>>)
        ELSE Plain(NumStr(<<10, 1>>))] :
        a1 \in {Plain(NumStr(<<2, 1>>)), Fml(<<TRef(LB, 1)>>)},
        c1 \in {Plain(Empty), Fml(<<TRef(LA, 1), TOp("+"), TRef(LB, 1)>>)},
        a2 \in {Plain(NumStr(<<0, 1>>)),
                Fml(<<TNum(4, 1), TOp("/"), TNum(0, 1)>>)}}

GridInit ==
    \E cells \in GridCells, type \in GridTypes :
        /\ columns = <<type, type, type>>
        /\ CreateSheet(MakeRows(<<3, 3>>, cells, Empty), MakeFormulas(cells))

\* The indexes a handler is asked for: one before the first, every one in
\* use, and one past the last.
RowIndexes == (-1)..Len(rows)
ColIndexes == (-1)..Len(columns)
GridUpdates == {Plain(Word), Fml(<<TRef(LA, 1)>>)}

GridNext ==
    \/ /\ edits < MaxMoves
       /\ \E key \in GridKeys(rows), x \in GridUpdates : UpdateCell(key, x)
    \/ /\ edits < MaxMoves
       /\ \E row_index \in RowIndexes : InsertRowAt(row_index)
    \/ /\ edits < MaxMoves
       /\ \E row_index \in RowIndexes : DeleteRow(row_index)
    \/ /\ edits < MaxMoves
       /\ \E col_index \in ColIndexes : DeleteColumn(col_index)
    \/ /\ edits < MaxMoves
       /\ \E row_index \in RowIndexes : DuplicateRow(row_index)
    \/ /\ edits < MaxMoves
       /\ \E from_index \in ColIndexes, to_index \in ColIndexes :
              MoveColumn(from_index, to_index)
    \/ /\ edits < MaxMoves
       /\ \E col_index \in ColIndexes, ascending \in BOOLEAN :
              SortByColumn(col_index, ascending)

GridSpec == GridInit /\ [][GridNext]_vars

\* ------------------------------------------------------------------------
\* recalculate step by step: the calls of _resolve in progress are kept as
\* a stack of frames, so that a chain of calls as deep as the depth cap is
\* followed one call at a time
\* ------------------------------------------------------------------------
\* probe holds the pass: the evaluation order, the index of the loop, the
\* frames of the calls of _resolve that are inside evaluate (the loop's
\* call first), and rows, cache and errors as the closures see them.  A
\* frame is the key being resolved, the text evaluate holds after the
\* function pass, the position of the reference pass in it and the text
\* the pass has produced.
Frame(key, expr) == [key |-> key, expr |-> expr, i |-> 1, out |-> <<>>]

Pass(eval_order, st) ==
    [fn |-> "recalculate", order |-> eval_order, idx |-> 1, frames |-> <<>>,
     st |-> st]

Top(m) == m.frames[Len(m.frames)]

\* The arguments a call made now gets: visiting holds the keys of the
\* frames, depth is their number.
Visiting(m) == {m.frames[j].key : j \in 1..Len(m.frames)}
Depth(m) == Len(m.frames)
Ctx(m) ==
    Closure(m.st, formulas, SeqToSet(m.order), NumRows(m.st.rows),
            NumCols(m.st.rows))

\* The loop's try block ends with r, a value or an exception that no frame
\* catches: the cell is written and the loop goes on.
Finished(m, r) ==
    [m EXCEPT !.st = StoreResult(m.st, m.order[m.idx], r),
              !.frames = <<>>,
              !.idx = m.idx + 1]

\* _ref_sub of the top frame gets the value r.v: str(resolve_cell(r, c))
Spliced(m, r) ==
    [m EXCEPT !.st.cache = r.cache,
              !.frames[Len(m.frames)].out = Top(m).out \o NumToks(r.v),
              !.frames[Len(m.frames)].i = Top(m).i + 1]

\* A call of _resolve returns r to its caller.
Returned(m, r) ==
    IF ~r.ok \/ m.frames = <<>> THEN Finished(m, r) ELSE Spliced(m, r)

\* evaluate begins for key after the function pass f: a new frame, or the
\* exception of the pass or of the unknown function check.
Entered(m, key, f) ==
    IF FuncsDone(f)
    THEN [m EXCEPT !.st.cache = f.cache,
                   !.frames = Append(m.frames, Frame(key, f.v))]
    ELSE IF ~f.ok THEN Finished(m, ERes(FALSE, Zero, f.code, f.cache))
    ELSE Finished(m, ERes(FALSE, Zero, "#ERROR", f.cache))

\* _resolve(key, visiting, depth) is called: it goes into evaluate, or it
\* answers at once.
Called_resolve(m, key) ==
    IF Evaluates(key, Visiting(m), Depth(m), Ctx(m), m.st.cache)
    THEN IF LStripEq(formulas[key]) = <<>>
         THEN Finished(m, ERes(FALSE, Zero, "#ERROR", m.st.cache))
         ELSE Entered(m, key,
                      FuncPass(LStripEq(formulas[key]), 1, <<>>,
                               Visiting(m) \cup {key}, Depth(m) + 1, Ctx(m),
                               m.st.cache))
    ELSE Returned(m, Answer(key, Visiting(m), Depth(m), Ctx(m), m.st.cache))

\* One round of the loop `for key in eval_order`, up to its call of
\* _resolve.
LoopKey(m, key) ==
    IF ~KeyInGrid(m.st.rows, key) THEN [m EXCEPT !.idx = m.idx + 1]
    ELSE IF validate_formula(formulas[key]) # ""
    THEN [m EXCEPT !.st = WriteError(m.st, key, validate_formula(formulas[key])),
                   !.idx = m.idx + 1]
    ELSE Called_resolve(m, key)

\* The reference pass of the top frame at its next token.
RefToken(m) ==
    IF RefResolves(Top(m).expr, Top(m).i, Ctx(m))
    THEN Called_resolve(m, parse_cell_ref(Top(m).expr[Top(m).i].c1,
                                          Top(m).expr[Top(m).i].r1))
    ELSE IF ~IsRef(Top(m).expr[Top(m).i])
    THEN [m EXCEPT !.frames[Len(m.frames)].out =
                       Append(Top(m).out, Top(m).expr[Top(m).i]),
                   !.frames[Len(m.frames)].i = Top(m).i + 1]
    ELSE Finished(m, ERes(FALSE, Zero, "#REF", m.st.cache))

\* The top frame's evaluate parses its text and _resolve caches and returns
\* the value.
FrameDone(m) ==
    Returned([m EXCEPT !.frames = SubSeq(m.frames, 1, Len(m.frames) - 1)],
             CacheResult(Top(m).key, EvalParse(Parse(Top(m).out), m.st.cache)))

Stepped(m) ==
    /\ probe' = m
    /\ rows' = m.st.rows
    /\ UNCHANGED <<columns, formulas, call, edits>>

LoopStep ==
    /\ probe.frames = <<>>
    /\ probe.idx <= Len(probe.order)
    /\ Stepped(LoopKey(probe, probe.order[probe.idx]))

RefStep ==
    /\ probe.frames # <<>>
    /\ Top(probe).i <= Len(Top(probe).expr)
    /\ Stepped(RefToken(probe))

ReturnStep ==
    /\ probe.frames # <<>>
    /\ Top(probe).i > Len(Top(probe).expr)
    /\ Stepped(FrameDone(probe))

\* The pass is over.
PassDone == probe.frames = <<>> /\ probe.idx > Len(probe.order)

StepSheets == RaggedSheets \cup HoleChainSheets

\* recalculate(rows, formulas, None) is called on a sheet.
StepBegun(rows0, fm, eval_order) ==
    /\ columns = [c \in 1..NumCols(rows0) |-> "text"]
    /\ rows = rows0
    /\ formulas = fm
    /\ call = [op |-> "recalculate", full |-> TRUE, pre |-> rows0,
               order |-> eval_order]
    /\ edits = 0
    /\ probe = Pass(eval_order, RecalcState(rows0, eval_order))

StepInit ==
    \E sh \in StepSheets :
    \E perm \in SetIterOrders(DOMAIN MakeFormulas(sh.cells)) :
        StepBegun(MakeRows(sh.shape, sh.cells, Empty), MakeFormulas(sh.cells),
                  topo_sort(Forward(MakeFormulas(sh.cells)), perm))

StepNext == LoopStep \/ RefStep \/ ReturnStep

StepSpec == StepInit /\ [][StepNext]_vars

\* ------------------------------------------------------------------------
\* The functions of the formula module, and the formula-key helper of the
\* sheet repository, called on their own
\* ------------------------------------------------------------------------
\* No sheet: the functions below read none.
NoCall ==
    [op |-> "none", value |-> NoValue, was |-> EmptyMap, full |-> TRUE,
     changed |-> {}, pre |-> <<>>,
     order |-> <<>>, raised |-> FALSE, clean |-> FALSE, shadows |-> {}]

\* A call to make: the function and its arguments.
Asked(fn, args) ==
    [fn |-> fn, args |-> args, done |-> FALSE, out |-> "pending"]

\* The call returned: its result is on record.
Called(out) ==
    /\ ~probe.done
    /\ probe' = [probe EXCEPT !.done = TRUE, !.out = out]
    /\ UNCHANGED <<columns, rows, formulas, call, edits>>

\* The tokens of the bodies given to validate_formula: A1 A0 SUM(A1:B1)
\* SUM(A0:A3) 2 . + / ( ).
ValidateToks ==
    {TRef(LA, 1), TRef(LA, 0), TFunc("SUM", LA, 1, LB, 1),
     TFunc("SUM", LA, 0, LA, 3), TNum(2, 1), TDot,
     TOp("+"), TOp("/"), TOp("("), TOp(")")}

\* A token that is, or is replaced by, digits and decimal points.
IsOperand(tok) == tok.t \in {"num", ".", "1.2.3", "ref"} \/ IsFunc(tok)

\* No two operands are adjacent.
Tokenised(body) ==
    \A i \in 1..(Len(body) - 1) : ~(IsOperand(body[i]) /\ IsOperand(body[i + 1]))

\* The bodies of at most n tokens of T.
Bodies(T, n) ==
    {b \in UNION {[1..m -> T] : m \in 0..n} : Tokenised(b)}

ValidateArgs ==
    {[body |-> body] : body \in Bodies(ValidateToks, MaxTokens)}

\* validate_formula("=" + body)
Validate ==
    /\ probe.fn = "validate_formula"
    /\ Called(validate_formula(probe.args.body))

\* Arithmetic expressions in postfix form: the numbers 1, 2, 3, the four
\* binary operators, and "neg" for the unary minus.  Those of exactly n
\* operators:
Leaves == {TNum(v, 1) : v \in 1..3}
BinOps == {TOp(o) : o \in {"+", "-", "*", "/"}}
TNeg == TOp("neg")

RECURSIVE Postfix(_)
Postfix(n) ==
    IF n = 0 THEN {<<x>> : x \in Leaves}
    ELSE {a \o <<TNeg>> : a \in Postfix(n - 1)}
         \cup UNION {{a \o b \o <<o>> :
                          a \in Postfix(i), b \in Postfix(n - 1 - i), o \in BinOps} :
                      i \in 0..(n - 1)}

Expressions == UNION {Postfix(n) : n \in 0..MaxOps}

\* The text of an expression, with the parentheses the grammar needs and no
\* other: lvl is 3 for a factor, 2 for a term, 1 for an expr.
Txt(toks, lvl) == [toks |-> toks, lvl |-> lvl]
Paren(x, lvl) ==
    IF x.lvl >= lvl THEN x.toks ELSE <<TOp("(")>> \o x.toks \o <<TOp(")")>>
Join(l, o, r) ==
    IF o.t \in {"+", "-"}
    THEN Txt(Paren(l, 1) \o <<o>> \o Paren(r, 2), 1)
    ELSE Txt(Paren(l, 2) \o <<o>> \o Paren(r, 3), 2)

RECURSIVE InfixFrom(_, _, _)
InfixFrom(post, i, stack) ==
    IF i > Len(post) THEN stack[1].toks
    ELSE LET n == Len(stack)
         IN  CASE post[i].t = "num" ->
                      InfixFrom(post, i + 1, Append(stack, Txt(<<post[i]>>, 3)))
               [] post[i].t = "neg" ->
                      InfixFrom(post, i + 1,
                          [stack EXCEPT ![n] =
                              Txt(<<TOp("-")>> \o Paren(stack[n], 3), 3)])
               [] OTHER ->
                      InfixFrom(post, i + 1,
                          Append(SubSeq(stack, 1, n - 2),
                                 Join(stack[n - 1], post[i], stack[n])))

Infix(post) == InfixFrom(post, 1, <<>>)

\* evaluate("=" + text), for a text without references: no cell is read.
NoSheetCtx ==
    [rows |-> <<>>, formulas |-> EmptyMap, eval_set |-> {},
     errors |-> NoErrors, num_rows |-> 0, num_cols |-> 0]

EvaluateArgs == {[post |-> post, text |-> Infix(post)] : post \in Expressions}

Evaluate ==
    /\ probe.fn = "evaluate"
    /\ Called(evaluate(probe.args.text, {}, 0, NoSheetCtx, EmptyMap))

\* The tokens of the formulas given to shift_refs: A1 B2 Z1 AA3
\* SUM(A1:B2) 2 +.
LZ == <<26>>
LAA == <<1, 1>>
ShiftToks ==
    {TRef(LA, 1), TRef(LB, 2), TRef(LZ, 1), TRef(LAA, 3),
     TFunc("SUM", LA, 1, LB, 2), TNum(2, 1), TOp("+")}
RowDeltas == {-1, 0, 1}
ColDeltas == {-2, -1, 0, 1}

ShiftRefsArgs ==
    {[body |-> body, row_delta |-> dr, col_delta |-> dc] :
        body \in Bodies(ShiftToks, MaxTokens - 1),
        dr \in RowDeltas, dc \in ColDeltas}

\* shift_refs("=" + body, row_delta, col_delta)
ShiftRefs ==
    /\ probe.fn = "shift_refs"
    /\ Called(shift_refs(probe.args.body, probe.args.row_delta,
                         probe.args.col_delta))

\* The formula maps given to _shift_formulas: any keys of three rows and two
\* columns, each with a text of its own.
ShiftKeys == {<<r, c>> : r \in 0..2, c \in 0..1}
TextOf(key) == <<TNum(key[1], 1), TOp("+"), TNum(key[2], 1)>>
ShiftMaps == {[k \in S |-> TextOf(k)] : S \in SUBSET ShiftKeys}
\* Insertion and deletion indexes: a position of the sheet, or its end.
ShiftIndexes == 0..3

ShiftFormulasArgs ==
    {[formulas |-> fm, axis |-> axis, index |-> index, delta |-> delta] :
        fm \in ShiftMaps, axis \in {"row", "col"}, index \in ShiftIndexes,
        delta \in {1, -1}}

\* SheetRepository._shift_formulas(formulas, axis, index, delta)
ShiftFormulas ==
    /\ probe.fn = "shift_formulas"
    /\ \E items \in SetIterOrders(DOMAIN probe.args.formulas) :
           Called(shift_formulas(probe.args.formulas, items, probe.args.axis,
                                 probe.args.index, probe.args.delta))

\* The column texts of a reference, upper-cased: 1 to ColLetters letters.
ColTexts == UNION {[1..n -> 1..26] : n \in 1..ColLetters}
\* The index of the last of them, ZZZ.
LastCol == col_to_index([i \in 1..ColLetters |-> 26])

ColToIndexArgs == {[col_str |-> letters] : letters \in ColTexts}

\* col_to_index(col_str)
ColToIndex ==
    /\ probe.fn = "col_to_index"
    /\ Called(col_to_index(probe.args.col_str))

IndexToColArgs == {[idx |-> idx] : idx \in 0..LastCol}

\* index_to_col(idx)
IndexToCol ==
    /\ probe.fn = "index_to_col"
    /\ Called(index_to_col(probe.args.idx))

\* One function is called, once, on arguments drawn from the sets above.
FnInit ==
    /\ columns = <<>>
    /\ rows = <<>>
    /\ formulas = EmptyMap
    /\ call = NoCall
    /\ edits = 0
    /\ \/ \E a \in ValidateArgs : probe = Asked("validate_formula", a)
       \/ \E a \in EvaluateArgs : probe = Asked("evaluate", a)
       \/ \E a \in ShiftRefsArgs : probe = Asked("shift_refs", a)
       \/ \E a \in ShiftFormulasArgs : probe = Asked("shift_formulas", a)
       \/ \E a \in ColToIndexArgs : probe = Asked("col_to_index", a)
       \/ \E a \in IndexToColArgs : probe = Asked("index_to_col", a)

FnNext ==
    \/ Validate
    \/ Evaluate
    \/ ShiftRefs
    \/ ShiftFormulas
    \/ ColToIndex
    \/ IndexToCol

FnSpec == FnInit /\ [][FnNext]_vars

\* ------------------------------------------------------------------------
\* The value domain of the model
\* ------------------------------------------------------------------------
RECURSIVE StripFactor(_, _)
StripFactor(n, p) == IF n % p = 0 THEN StripFactor(n \div p, p) ELSE n

\* Every number shown in the grid is a short terminating decimal, so that
\* its text and its float agree.
ExactDisplay ==
    \A r \in 1..Len(rows) : \A c \in 1..Len(rows[r]) :
        rows[r][c].k = "num" =>
            /\ StripFactor(StripFactor(rows[r][c].d, 2), 5) = 1
            /\ Abs(rows[r][c].n) < 10000 /\ rows[r][c].d < 10000

\* ------------------------------------------------------------------------
\* Vocabulary of the properties
\* ------------------------------------------------------------------------
\* The formula keys that read some cell of S.
Readers(S) == {k \in DOMAIN formulas : extract_refs(formulas[k]) \cap S # {}}

\* The formula keys between 1 and n reverse-edge hops from the cells of S:
\* those within the first half of the hops, and those within the other half
\* from them.
RECURSIVE Hops(_, _)
Hops(S, n) ==
    IF n = 0 THEN {}
    ELSE IF n = 1 THEN Readers(S)
    ELSE Hops(S, n \div 2) \cup Hops(Hops(S, n \div 2), n - (n \div 2))

\* The formula keys at most n reverse-edge hops from the changed cells.
WithinHops(n) == Hops(call.changed, n)

\* The formula keys reachable from the changed cells at any distance.
Downstream == WithinHops(Cardinality(DOMAIN formulas))

Rectangular(rs) == \A r \in 1..Len(rs) : Len(rs[r]) = Len(rs[1])

Targeted == call.op = "paste"
PastedPlain == Targeted /\ call.changed \cap DOMAIN formulas = {}
PastedFormula == Targeted /\ call.changed \subseteq DOMAIN formulas

\* The formula text is one bare reference, to the cell key.
BareRefTo(body, key) ==
    /\ Len(body) = 1 /\ IsRef(body[1]) /\ RefValid(body[1].r1)
    /\ parse_cell_ref(body[1].c1, body[1].r1) = key

\* The keys of S left once every key that reads no key of what is left is
\* taken away, again and again: none when S has no cycle.
RECURSIVE Peel(_)
Peel(S) ==
    IF \A k \in S : extract_refs(formulas[k]) \cap S # {} THEN S
    ELSE Peel({k \in S : extract_refs(formulas[k]) \cap S # {}})

Acyclic(S) == Peel(S) = {}

\* The cells whose values a formula reads: those of its bare references and
\* of the ranges of SUM, AVERAGE, AVG, MIN and MAX.
ValueRefs(formula) ==
    extract_refs(SelectSeq(formula, LAMBDA tok : tok.t # "COUNT"))

\* Every reference and range of the text is well formed and in bounds.
RefsInBounds(body) ==
    LET ctx == [num_rows |-> NumRows(rows), num_cols |-> NumCols(rows)]
    IN  \A i \in 1..Len(body) :
            /\ IsFunc(body[i]) =>
                   /\ RangeValid(body[i])
                   /\ \A cell \in SeqToSet(expand_range(body[i])) :
                          BoundsOk(ctx, cell)
            /\ IsRef(body[i]) =>
                   /\ RefValid(body[i].r1)
                   /\ BoundsOk(ctx, parse_cell_ref(body[i].c1, body[i].r1))

\* The keys evaluated before the j-th of the pass.
Before(j) == {call.order[i] : i \in 1..(j - 1)}

\* K is a formula cell holding an error code when the j-th formula of the
\* pass is evaluated: written earlier in the pass, or displayed by a formula
\* the pass does not evaluate.
ErrCell(K, j) ==
    /\ K \in DOMAIN formulas /\ InGrid(rows, K)
    /\ Cell(rows, K).k \in ErrorCodes
    /\ (K \in Before(j) \/ K \notin SeqToSet(call.order))

\* The j-th formula of the pass gets as far as reading its cells, and every
\* formula it reads that the pass evaluates was evaluated before it.
ReadsSettled(j) ==
    /\ InGrid(rows, call.order[j])
    /\ validate_formula(formulas[call.order[j]]) = ""
    /\ RefsInBounds(formulas[call.order[j]])
    /\ \A X \in extract_refs(formulas[call.order[j]]) \cap SeqToSet(call.order) :
           X \in Before(j) /\ InGrid(rows, X)

\* The j-th formula of the pass holds the code of the error cells among S,
\* when there are some and they hold one code.
Inherits(j, S) ==
    \A K \in S :
        (ErrCell(K, j) /\ \A K2 \in S : ErrCell(K2, j) => Cell(rows, K2) = Cell(rows, K))
            => Cell(rows, call.order[j]) = Cell(rows, K)

\* The token is a bare reference that evaluate resolves: well formed and in
\* bounds.
Resolvable(tok) ==
    /\ IsRef(tok) /\ RefValid(tok.r1)
    /\ BoundsOk([num_rows |-> NumRows(rows), num_cols |-> NumCols(rows)],
                parse_cell_ref(tok.c1, tok.r1))

\* The cell resolves to 0: a plain cell that is blank, no number or a zero,
\* or a formula that displays 0.
ReadsZero(key) ==
    IF key \in DOMAIN formulas
    THEN InGrid(rows, key) /\ Cell(rows, key) = NumStr(Zero)
    ELSE \/ ~InGrid(rows, key)
         \/ ~(Truthy(Cell(rows, key)) /\ FloatOk(Cell(rows, key)))
         \/ FloatOf(Cell(rows, key)) = Zero

\* The cell resolves to a number: a plain cell, or a formula that displays
\* one.
ReadsNumber(key) ==
    key \in DOMAIN formulas => InGrid(rows, key) /\ Cell(rows, key).k = "num"

ZeroDivisor(tok) ==
    \/ tok.t = "num" /\ tok.n = 0
    \/ Resolvable(tok) /\ ReadsZero(parse_cell_ref(tok.c1, tok.r1))

Dividend(tok) ==
    \/ tok.t = "num"
    \/ Resolvable(tok) /\ ReadsNumber(parse_cell_ref(tok.c1, tok.r1))

\* The text is a / b with a divisor equal to zero.
DividesByZero(body) ==
    /\ Len(body) = 3 /\ body[2].t = "/"
    /\ Dividend(body[1]) /\ ZeroDivisor(body[3])

\* What recalculate may leave in the slot of a formula.
Computed(s) == s.k = "num" \/ s.k \in ErrorCodes

\* The arithmetic grammar, over the tokens i..j of a text:
\*   expr := term (("+" | "-") term)*
\*   term := factor (("*" | "/") factor)*
\*   factor := number | "(" expr ")" | "-" factor | "+" factor
RECURSIVE IsExpr(_, _, _)
RECURSIVE IsTerm(_, _, _)
RECURSIVE IsFactor(_, _, _)
IsFactor(text, i, j) ==
    /\ i <= j
    /\ \/ i = j /\ text[i].t = "num"
       \/ text[i].t = "(" /\ text[j].t = ")" /\ IsExpr(text, i + 1, j - 1)
       \/ text[i].t \in {"+", "-"} /\ IsFactor(text, i + 1, j)

IsTerm(text, i, j) ==
    \/ IsFactor(text, i, j)
    \/ \E k \in (i + 1)..(j - 1) :
           /\ text[k].t \in {"*", "/"}
           /\ IsTerm(text, i, k - 1) /\ IsFactor(text, k + 1, j)

IsExpr(text, i, j) ==
    \/ IsTerm(text, i, j)
    \/ \E k \in (i + 1)..(j - 1) :
           /\ text[k].t \in {"+", "-"}
           /\ IsExpr(text, i, k - 1) /\ IsTerm(text, k + 1, j)

IsSentence(text) == IsExpr(text, 1, Len(text))

\* The value of an expression in postfix form, by a stack of numbers: each
\* operator applies to the operands written before it.  A division by zero
\* is the error #DIV/0.
RECURSIVE PostfixValue(_, _, _)
PostfixValue(post, i, stack) ==
    IF i > Len(post) THEN Ok(stack[1])
    ELSE LET n == Len(stack)
         IN  CASE post[i].t = "num" ->
                      PostfixValue(post, i + 1, Append(stack, <<post[i].n, post[i].d>>))
               [] post[i].t = "neg" ->
                      PostfixValue(post, i + 1, [stack EXCEPT ![n] = RNeg(@)])
               [] post[i].t = "/" /\ stack[n] = Zero -> Raise("#DIV/0")
               [] OTHER ->
                      PostfixValue(post, i + 1,
                          Append(SubSeq(stack, 1, n - 2),
                              CASE post[i].t = "+" -> RAdd(stack[n - 1], stack[n])
                                [] post[i].t = "-" -> RSub(stack[n - 1], stack[n])
                                [] post[i].t = "*" -> RMul(stack[n - 1], stack[n])
                                [] OTHER -> RDiv(stack[n - 1], stack[n])))

\* The cells a token names: that of a bare reference, the two endpoints
\* of a function range.
Named(tok) ==
    IF IsRef(tok) THEN <<parse_cell_ref(tok.c1, tok.r1)>>
    ELSE IF IsFunc(tok)
    THEN <<parse_cell_ref(tok.c1, tok.r1), parse_cell_ref(tok.c2, tok.r2)>>
    ELSE <<>>

\* Token b is token a with every cell it names moved by (dr, dc).
MovedBy(a, b, dr, dc) ==
    /\ b.t = a.t /\ b.n = a.n /\ b.d = a.d
    /\ Len(Named(b)) = Len(Named(a))
    /\ \A i \in 1..Len(Named(a)) :
           Named(b)[i] = <<Named(a)[i][1] + dr, Named(a)[i][2] + dc>>

\* Some cell the body names would get a negative row or column.
MovesNegative(body, dr, dc) ==
    \E i \in 1..Len(body) : \E j \in 1..Len(Named(body[i])) :
        Named(body[i])[j][1] + dr < 0 \/ Named(body[i])[j][2] + dc < 0

\* The key's position along the axis, and the key d positions further.
Along(key, axis) == IF axis = "row" THEN key[1] ELSE key[2]
Further(key, axis, d) ==
    IF axis = "row" THEN <<key[1] + d, key[2]>> ELSE <<key[1], key[2] + d>>

\* The formula the shift was given under key is in its result under key2.
Carried(key, key2) ==
    key2 \in DOMAIN probe.out /\ probe.out[key2] = probe.args.formulas[key]

\* The formula the shift was given under key is nowhere in its result.
Dropped(key) ==
    \A key2 \in DOMAIN probe.out : probe.out[key2] # probe.args.formulas[key]

\* The body with every reference and function call replaced by the
\* placeholder 0.
Placeheld(body) ==
    [i \in 1..Len(body) |->
        IF IsRef(body[i]) \/ IsFunc(body[i]) THEN TNum(0, 1) ELSE body[i]]

\* Every reference and range endpoint of the body has a row of 1 or more.
RefsWellFormed(body) ==
    \A i \in 1..Len(body) :
        /\ IsRef(body[i]) => RefValid(body[i].r1)
        /\ IsFunc(body[i]) => RangeValid(body[i])

\* The body divides by a placeholder.
DividesByPlaceholder(body) ==
    \E i \in 1..(Len(body) - 1) :
        body[i].t = "/" /\ (IsRef(body[i + 1]) \/ IsFunc(body[i + 1]))

\* The cell lies outside the sheet's bounds: its row is not below the number
\* of rows, or its column not below the length of the longest row.
OutOfBounds(key) == key[1] >= NumRows(rows) \/ key[2] >= NumCols(rows)

\* The i-th token of the text names a cell out of bounds, by a bare
\* reference or inside a function range.
NamesOutOfBounds(body, i) ==
    \/ /\ IsRef(body[i]) /\ RefValid(body[i].r1)
       /\ OutOfBounds(parse_cell_ref(body[i].c1, body[i].r1))
    \/ /\ IsFunc(body[i]) /\ RangeValid(body[i])
       /\ \E cell \in SeqToSet(expand_range(body[i])) : OutOfBounds(cell)

\* The text passes validation and its only reference names a cell out of
\* bounds.
OnlyRefOutOfBounds(body) ==
    /\ validate_formula(body) = ""
    /\ \E i \in 1..Len(body) :
           /\ NamesOutOfBounds(body, i)
           /\ \A j \in 1..Len(body) :
                  (IsRef(body[j]) \/ IsFunc(body[j])) => j = i

\* ------------------------------------------------------------------------
\* Properties
\* ------------------------------------------------------------------------
\* C1: on a rectangular grid whose formula slots held the results of a full
\* recalculation, after plain cells are changed, a targeted recalculation
\* leaves the grid that a full recalculation of the same inputs leaves,
\* provided no formula is more than MAX_DEPTH hops from the changed cells.
C1_TargetedAgreesWithFull ==
    (/\ PastedPlain
     /\ call.clean
     /\ Rectangular(call.pre)
     /\ Downstream \subseteq WithinHops(MAX_DEPTH))
        => call.shadows = {rows}

\* C2: when a cell K is edited to a formula and recalculate is called with
\* changed_cells = {K}, K's slot holds the computed value or an error code
\* afterwards, and every formula that reads K holds what a full
\* recalculation, which computes it from K's new value, gives it.
C2_PastedFormulaComputed ==
    (PastedFormula /\ ~call.raised) =>
        \A K \in call.changed :
            /\ Computed(Cell(rows, K))
            /\ \A R \in Readers({K}) :
                   InGrid(rows, R) =>
                       \E full \in call.shadows : Cell(rows, R) = Cell(full, R)

\* C3: affected(changed) returns, each once, exactly the formula keys whose
\* distance from a changed cell along reverse edges is between 1 and
\* MAX_DEPTH hops.
C3_AffectedWithinHops ==
    Targeted =>
        /\ SeqToSet(call.order) = WithinHops(MAX_DEPTH)
        /\ Cardinality(SeqToSet(call.order)) = Len(call.order)

\* A targeted pass that leaves out a formula more than MAX_DEPTH hops away.
C3_Witness ==
    /\ Targeted
    /\ Len(call.order) = MAX_DEPTH
    /\ Downstream \ WithinHops(MAX_DEPTH) # {}

\* C4: two formula cells inside the grid that read each other by bare
\* references both hold #CYCLE after a full recalculation and after a
\* targeted one whose changed cells contain either of the two.
C4_MutualCycle ==
    \A X \in DOMAIN formulas : \A Y \in DOMAIN formulas :
        (/\ X # Y
         /\ BareRefTo(formulas[X], Y) /\ BareRefTo(formulas[Y], X)
         /\ InGrid(rows, X) /\ InGrid(rows, Y)
         /\ (call.full \/ call.changed \cap {X, Y} # {}))
            => /\ Cell(rows, X) = CodeStr("#CYCLE")
               /\ Cell(rows, Y) = CodeStr("#CYCLE")

\* A targeted pass over a pair made by pasting one of its two formulas.
C4_Witness ==
    /\ Targeted
    /\ \E X \in call.changed : \E Y \in DOMAIN formulas \ {X} :
           /\ X \in DOMAIN formulas
           /\ BareRefTo(formulas[X], Y) /\ BareRefTo(formulas[Y], X)
           /\ Cell(rows, Y) = CodeStr("#CYCLE")

\* C5: when the dependency graph restricted to the evaluated keys is
\* acyclic, the order returned by topo_sort_all() and by affected() is
\* topological: a formula K that reads K', both in the list, comes after K'.
C5_TopologicalOrder ==
    Acyclic(SeqToSet(call.order)) =>
        \A i \in 1..Len(call.order) : \A j \in 1..Len(call.order) :
            call.order[j] \in extract_refs(formulas[call.order[i]]) => j < i

\* An acyclic order of three or more formulas in which some formula comes
\* after a cell it reads whose key is the greater of the two.
C5_Witness ==
    /\ Len(call.order) >= 3
    /\ Acyclic(SeqToSet(call.order))
    /\ \E i \in 1..Len(call.order) : \E j \in 1..Len(call.order) :
           /\ call.order[j] \in extract_refs(formulas[call.order[i]])
           /\ KeyLess(call.order[i], call.order[j])

\* C6: after a full recalculation the slot of every formula key inside the
\* grid holds a formatted number or one of the four error codes, never the
\* empty placeholder or another text.
C6_FormulaSlotsComputed ==
    call.full =>
        \A k \in DOMAIN formulas :
            InGrid(rows, k) => Computed(Cell(rows, k))

\* A full recalculation that left a number in one formula's slot and an
\* error code in another's, with a third formula key outside the grid.
C6_Witness ==
    /\ call.full
    /\ \E k \in DOMAIN formulas : InGrid(rows, k) /\ Cell(rows, k).k = "num"
    /\ \E k \in DOMAIN formulas : InGrid(rows, k) /\ Cell(rows, k).k \in ErrorCodes
    /\ \E k \in DOMAIN formulas : ~InGrid(rows, k)

\* C7: recalculate never raises to its caller, whatever the formula texts
\* and wherever the formula keys lie: every call returns normally.
C7_NeverRaises == ~call.raised

\* A call that returned with a formula key outside the grid in its
\* evaluation order and an error code written for a formula that reads it.
C7_Witness ==
    /\ ~call.raised
    /\ \E k \in SeqToSet(call.order) :
           /\ ~InGrid(rows, k)
           /\ \E r \in Readers({k}) :
                  InGrid(rows, r) /\ Cell(rows, r).k \in ErrorCodes

\* C8: first-cause preservation along a chain, link by link: when a
\* formula K0 evaluated in the pass fails with a code and K1 reads K0 by a
\* bare reference and nothing else, K1 ends the pass holding that code.
C8_FirstCausePreserved ==
    \A K0 \in SeqToSet(call.order) : \A K1 \in DOMAIN formulas :
        (/\ K1 # K0
         /\ BareRefTo(formulas[K1], K0)
         /\ InGrid(rows, K0) /\ InGrid(rows, K1)
         /\ Cell(rows, K0).k \in ErrorCodes)
            => Cell(rows, K1) = Cell(rows, K0)

\* C9 as stated: a formula that reads a formula cell holding an error code,
\* by a bare reference or inside the range of any of the six functions,
\* fails with that code.
C9_AnyReadInherits ==
    \A j \in 1..Len(call.order) :
        ReadsSettled(j) => Inherits(j, extract_refs(formulas[call.order[j]]))

\* C9 amended: a formula that reads a formula cell holding an error code, by
\* a bare reference or inside the range of SUM, AVERAGE, AVG, MIN or MAX,
\* fails with that code, whether the code was written earlier in the pass
\* or is displayed by a formula the targeted pass does not evaluate.
C9_ValueReadInherits ==
    \A j \in 1..Len(call.order) :
        ReadsSettled(j) => Inherits(j, ValueRefs(formulas[call.order[j]]))

\* A targeted pass in which a formula took the code displayed by a formula
\* left out of the pass, read inside a range.
C9_Witness ==
    /\ Targeted
    /\ \E j \in 1..Len(call.order) :
           /\ ReadsSettled(j)
           /\ \E i \in 1..Len(formulas[call.order[j]]) :
                  IsFunc(formulas[call.order[j]][i])
           /\ \E K \in ValueRefs(formulas[call.order[j]]) :
                  /\ ErrCell(K, j) /\ K \notin SeqToSet(call.order)
                  /\ Cell(rows, call.order[j]) = Cell(rows, K)

\* C10: a formula that divides by a divisor equal to zero (a literal 0, a
\* cell valued 0, a blank or non-numeric plain cell) passes the validator
\* and holds #DIV/0 after the pass that evaluates it.
C10_DivisionByZero ==
    \A K \in SeqToSet(call.order) :
        (InGrid(rows, K) /\ DividesByZero(formulas[K]))
            => /\ validate_formula(formulas[K]) = ""
               /\ Cell(rows, K) = CodeStr("#DIV/0")

\* A pass that wrote #DIV/0 for a division by a plain cell that holds no
\* number.
C10_Witness ==
    \E K \in SeqToSet(call.order) :
        /\ InGrid(rows, K) /\ DividesByZero(formulas[K])
        /\ IsRef(formulas[K][3])
        /\ Cell(rows, parse_cell_ref(formulas[K][3].c1, formulas[K][3].r1)) = Word
        /\ Cell(rows, K) = CodeStr("#DIV/0")

\* C11: in a recalculation, an evaluated formula that passes validation and
\* whose only reference, bare or a function range, names a cell with a row
\* not below the number of grid rows or a column not below the length of the
\* longest row, leaves #REF in its cell.
C11_OutOfBoundsRef ==
    \A j \in 1..Len(call.order) :
        (InGrid(rows, call.order[j]) /\ OnlyRefOutOfBounds(formulas[call.order[j]]))
            => Cell(rows, call.order[j]) = CodeStr("#REF")

\* A pass that evaluated a bare reference to a row out of bounds and a
\* function over a range with a column out of bounds.
C11_Witness ==
    \E j, k \in 1..Len(call.order) :
        /\ InGrid(rows, call.order[j]) /\ InGrid(rows, call.order[k])
        /\ OnlyRefOutOfBounds(formulas[call.order[j]])
        /\ OnlyRefOutOfBounds(formulas[call.order[k]])
        /\ IsRef(formulas[call.order[j]][1])
        /\ parse_cell_ref(formulas[call.order[j]][1].c1,
                          formulas[call.order[j]][1].r1)[1] >= NumRows(rows)
        /\ IsFunc(formulas[call.order[k]][1])
        /\ \E cell \in SeqToSet(expand_range(formulas[call.order[k]][1])) :
               cell[2] >= NumCols(rows)
        /\ Cell(rows, call.order[j]) = CodeStr("#REF")
        /\ Cell(rows, call.order[k]) = CodeStr("#REF")

\* C12: the grid a recalculation leaves is the same whatever order is taken
\* among the keys Kahn's algorithm leaves unordered (keys of in-degree zero
\* and the keys of the cyclic remainder): every iteration order of the
\* evaluation set gives the grid the call left.
C12_OrderIndependent ==
    \A iter \in {"asc", "desc"} :
        \A perm \in SetIterOrders(EvalKeys(formulas, call.full, call.changed, iter)) :
            recalculate(call.pre, formulas, call.full, call.changed, perm).rows = rows

\* C13: a recalculation given an empty set of changed cells, or an empty
\* formula map, is a no-op: the grid it leaves is the grid it was given, slot
\* for slot, and no formula is evaluated.
C13_EmptyIsNoOp ==
    ((~call.full /\ call.changed = {}) \/ DOMAIN formulas = {})
        => rows = call.pre /\ call.order = <<>> /\ ~call.raised

\* An empty paste on a sheet whose formula slots are stale: a formula was
\* pasted and its slot not computed.
C13_Witness ==
    /\ call.op = "paste_nothing" /\ rows = call.pre
    /\ \E k \in DOMAIN formulas : InGrid(rows, k) /\ ~Computed(Cell(rows, k))

\* C14: validate_formula returns #ERROR for every formula whose body, with
\* its (well-formed) references and function calls replaced by the
\* placeholder 0, is not a sentence of the arithmetic grammar, also when the
\* body divides by a placeholder; and it returns None when the replaced body
\* is a sentence, a division of placeholders by zero included.
C14_NonSentenceIsError ==
    (probe.fn = "validate_formula" /\ probe.done /\ RefsWellFormed(probe.args.body)) =>
        IF IsSentence(Placeheld(probe.args.body)) THEN probe.out = ""
        ELSE probe.out = "#ERROR"

\* C15: validate_formula returns #REF whenever a bare reference, or either
\* endpoint of a function range, has the shape of a reference and the row
\* number 0.
C15_MalformedRefIsRef ==
    (probe.fn = "validate_formula" /\ probe.done /\ ~RefsWellFormed(probe.args.body))
        => probe.out = "#REF"

\* C16: for an arithmetic expression of numbers, + - * /, unary minus and
\* parentheses, evaluate returns the value of the expression under the
\* standard precedence (* and / bind tighter than + and -) with operators
\* of one level associating to the left, and #DIV/0 when it divides by zero.
C16_PrecedenceAndAssociativity ==
    probe.fn = "evaluate" /\ probe.done =>
        /\ probe.out.ok = PostfixValue(probe.args.post, 1, <<>>).ok
        /\ probe.out.code = PostfixValue(probe.args.post, 1, <<>>).code
        /\ probe.out.ok => probe.out.v = PostfixValue(probe.args.post, 1, <<>>).v

\* =1+2*3 evaluated to 7.
C16_Witness ==
    /\ probe.fn = "evaluate" /\ probe.done
    /\ probe.args.text = <<TNum(1, 1), TOp("+"), TNum(2, 1), TOp("*"), TNum(3, 1)>>
    /\ probe.out.ok /\ probe.out.v = <<7, 1>>

\* C17: shift_refs(formula, dr, dc) is all-or-nothing: when some reference
\* of the text would get a negative row or column index the text is returned
\* as it was; otherwise every reference of the text, bare or an endpoint of
\* a function range, is moved by (dr, dc) and nothing else changes.
C17_ShiftAllOrNothing ==
    probe.fn = "shift_refs" /\ probe.done =>
        IF MovesNegative(probe.args.body, probe.args.row_delta, probe.args.col_delta)
        THEN probe.out = probe.args.body
        ELSE /\ Len(probe.out) = Len(probe.args.body)
             /\ \A i \in 1..Len(probe.args.body) :
                    MovedBy(probe.args.body[i], probe.out[i],
                            probe.args.row_delta, probe.args.col_delta)

\* =B2+A1 moved one column to the left: A1 cannot move, and B2 stays too.
C17_Witness ==
    /\ probe.fn = "shift_refs" /\ probe.done
    /\ probe.args.body = <<TRef(LB, 2), TOp("+"), TRef(LA, 1)>>
    /\ probe.args.row_delta = 0 /\ probe.args.col_delta = -1
    /\ probe.out = probe.args.body

\* C18: after an update_cell(r, c, v) that returned, the key "r,c" is in
\* the stored formula map exactly when v begins with "=": a formula is stored
\* under the key, any other value removes the key's formula.
C18_FormulaKeyIffFormula ==
    (call.op = "update_cell" /\ ~call.raised) =>
        \A key \in call.changed :
            /\ key \in DOMAIN formulas <=> call.value.isf
            /\ call.value.isf => formulas[key] = call.value.body

\* update_cell stored a plain value in a cell that held a formula: the key
\* has none any more and its slot holds the value.
C18_Witness ==
    /\ call.op = "update_cell" /\ ~call.raised /\ ~call.value.isf
    /\ \E key \in call.changed :
           /\ key \in DOMAIN call.was
           /\ key \notin DOMAIN formulas
           /\ Cell(rows, key) = call.value.s

\* C20: duplicate_row(i) keeps every formula of a row <= i under its key,
\* stores each formula of row i under the same column of row i + 1 as well,
\* and moves every formula of a row > i down by one row; no formula is lost
\* and no two formulas end up under one key: the new map has one key for
\* each old one and one more for each formula of row i.
C20_DuplicateRowFormulas ==
    call.op = "duplicate_row" =>
        \A first \in call.changed :
            /\ \A k \in DOMAIN call.was :
                   /\ k[1] <= first[1] =>
                          k \in DOMAIN formulas /\ formulas[k] = call.was[k]
                   /\ k[1] = first[1] =>
                          /\ <<k[1] + 1, k[2]>> \in DOMAIN formulas
                          /\ formulas[<<k[1] + 1, k[2]>>] = call.was[k]
                   /\ k[1] > first[1] =>
                          /\ <<k[1] + 1, k[2]>> \in DOMAIN formulas
                          /\ formulas[<<k[1] + 1, k[2]>>] = call.was[k]
            /\ Cardinality(DOMAIN formulas) =
                   Cardinality(DOMAIN call.was)
                       + Cardinality({k \in DOMAIN call.was : k[1] = first[1]})

\* A row duplicated on a sheet with formulas above it, in it and below it.
C20_Witness ==
    /\ call.op = "duplicate_row"
    /\ \E first \in call.changed :
           /\ \E k \in DOMAIN call.was : k[1] < first[1]
           /\ \E k \in DOMAIN call.was : k[1] = first[1]
           /\ \E k \in DOMAIN call.was : k[1] > first[1]
    /\ Cardinality(DOMAIN formulas) > Cardinality(DOMAIN call.was)

\* C19: the formula-key shift of the structural edits.  On an insert at
\* index i every formula whose position on the axis is >= i moves by +1 and
\* every other keeps its key; on a delete at index i the formulas at
\* position i are dropped, those at a position > i move by -1 and those at a
\* position < i keep their key.  The texts are carried over unchanged,
\* nothing else is in the result, and no key of the result has a negative
\* row or column.
C19_ShiftFormulaKeys ==
    probe.fn = "shift_formulas" /\ probe.done =>
        /\ \A k \in DOMAIN probe.args.formulas :
               IF Along(k, probe.args.axis) < probe.args.index THEN Carried(k, k)
               ELSE IF probe.args.delta = 1
               THEN Carried(k, Further(k, probe.args.axis, 1))
               ELSE IF Along(k, probe.args.axis) = probe.args.index THEN Dropped(k)
               ELSE Carried(k, Further(k, probe.args.axis, -1))
        /\ Cardinality(DOMAIN probe.out) =
               Cardinality({k \in DOMAIN probe.args.formulas :
                   probe.args.delta = 1 \/ Along(k, probe.args.axis) # probe.args.index})
        /\ \A k \in DOMAIN probe.out : k[1] >= 0 /\ k[2] >= 0

\* A row deleted with formulas above it, in it and below it.
C19_Witness ==
    /\ probe.fn = "shift_formulas" /\ probe.done
    /\ probe.args.axis = "row" /\ probe.args.delta = -1 /\ probe.args.index = 1
    /\ \E k \in DOMAIN probe.args.formulas : k[1] = 0 /\ Carried(k, k)
    /\ \E k \in DOMAIN probe.args.formulas : k[1] = 1 /\ Dropped(k)
    /\ \E k \in DOMAIN probe.args.formulas : k[1] = 2 /\ Carried(k, <<1, k[2]>>)


\* The column in which move_column(a, b) puts column c: b for the moved
\* column, one to the left for those it passes going right, one to the right
\* for those it passes going left.
MovedTo(c, a, b) ==
    IF c = a THEN b
    ELSE IF a < c /\ c <= b THEN c - 1
    ELSE IF b <= c /\ c < a THEN c + 1
    ELSE c

\* C21: move_column(a, b) takes the columns, the values of every row and the
\* formula keys through one permutation: what was in column c is afterwards
\* in column MovedTo(c, a, b), each formula with its text, and the number of
\* formulas is unchanged.
C21_MoveColumnRemap ==
    [][call'.op = "move_column" =>
        \A m \in call'.changed :
            /\ Len(columns') = Len(columns)
            /\ \A c \in 0..(Len(columns) - 1) :
                   columns'[MovedTo(c, m[1], m[2]) + 1] = columns[c + 1]
            /\ Len(call'.pre) = Len(rows)
            /\ \A k \in GridKeys(rows) :
                   Cell(call'.pre, <<k[1], MovedTo(k[2], m[1], m[2])>>)
                       = Cell(rows, k)
            /\ \A k \in DOMAIN formulas :
                   /\ <<k[1], MovedTo(k[2], m[1], m[2])>> \in DOMAIN formulas'
                   /\ formulas'[<<k[1], MovedTo(k[2], m[1], m[2])>>] = formulas[k]
            /\ Cardinality(DOMAIN formulas') = Cardinality(DOMAIN formulas)]_vars

\* The first column was moved to the last place and took a formula along,
\* and a formula of the last column went one place to the left.
C21_Witness ==
    /\ call.op = "move_column" /\ call.changed = {<<0, 2>>}
    /\ \E k \in DOMAIN call.was :
           k[2] = 0 /\ <<k[1], 2>> \in DOMAIN formulas
               /\ formulas[<<k[1], 2>>] = call.was[k]
    /\ \E k \in DOMAIN call.was :
           k[2] = 2 /\ <<k[1], 1>> \in DOMAIN formulas
               /\ formulas[<<k[1], 1>>] = call.was[k]

\* C22: the column codec round-trips.  The index of a text of 1 to
\* ColLetters letters lies between 0 and LastCol and index_to_col gives the
\* text back; the text of an index in that range has 1 to ColLetters
\* letters and col_to_index gives the index back; A is 0, Z is 25, AA is 26.
C22_ColumnRoundTrip ==
    /\ (probe.fn = "col_to_index" /\ probe.done) =>
           /\ probe.out \in 0..LastCol
           /\ index_to_col(probe.out) = probe.args.col_str
           /\ probe.args.col_str = <<1>> => probe.out = 0
           /\ probe.args.col_str = <<26>> => probe.out = 25
           /\ probe.args.col_str = <<1, 1>> => probe.out = 26
    /\ (probe.fn = "index_to_col" /\ probe.done) =>
           /\ probe.out \in ColTexts
           /\ col_to_index(probe.out) = probe.args.idx
           /\ probe.args.idx = 0 => probe.out = <<1>>
           /\ probe.args.idx = 25 => probe.out = <<26>>
           /\ probe.args.idx = 26 => probe.out = <<1, 1>>

\* index_to_col(26) gave AA: the first index whose text has two letters.
C22_Witness ==
    /\ probe.fn = "index_to_col" /\ probe.done
    /\ probe.args.idx = 26 /\ probe.out = <<1, 1>>

\* The keys of the pass that Kahn's algorithm leaves unordered: those on a
\* cycle within the evaluation set and those that read them.
Unordered == Peel(SeqToSet(call.order))

\* C23: every key of the pass that Kahn's algorithm cannot order holds
\* #CYCLE in its grid slot after the pass.
C23_UnorderedHoldCycle ==
    \A k \in Unordered : InGrid(rows, k) => Cell(rows, k) = CodeStr("#CYCLE")

\* C24: the list _topo_sort returns is a permutation of the set it was
\* given (every formula key for a full pass, the affected set for a targeted
\* one): no key twice, no key from outside, none missing; and every key
\* Kahn's algorithm leaves unordered comes after every key it orders.
C24_TopoSortPermutation ==
    /\ \A i \in 1..Len(call.order) : \A j \in 1..Len(call.order) :
           call.order[i] = call.order[j] => i = j
    /\ IF call.full THEN SeqToSet(call.order) = DOMAIN formulas
       ELSE \E iter \in {"asc", "desc"} :
                SeqToSet(call.order) = AffectedSet(formulas, call.changed, iter)
    /\ \A i \in 1..Len(call.order) : \A j \in 1..Len(call.order) :
           (call.order[i] \in Unordered /\ call.order[j] \notin Unordered)
               => j < i

\* A pass over three keys or more, one of which Kahn's algorithm ordered
\* although its key is greater than that of one it left unordered.
C24_Witness ==
    /\ Len(call.order) >= 3
    /\ \E i \in 1..Len(call.order) : \E j \in 1..Len(call.order) :
           /\ call.order[i] \in Unordered /\ call.order[j] \notin Unordered
           /\ KeyLess(call.order[i], call.order[j])

\* The formula text is one call of COUNT whose range is well formed and in
\* bounds.
CountsRange(body) ==
    /\ Len(body) = 1 /\ body[1].t = "COUNT" /\ RefsInBounds(body)

\* The cells of the range that are formula keys or hold a text that is not
\* blank.
Counted(body) ==
    {cell \in SeqToSet(expand_range(body[1])) :
        \/ cell \in DOMAIN formulas
        \/ InGrid(rows, cell) /\ StripTruthy(Cell(rows, cell))}

\* C25: a formula COUNT(range) that a pass evaluates holds the number of
\* cells of the range that are formula keys or whose slot in the grid holds
\* a text that is not blank; a formula cell counts whatever its slot holds
\* and also when it has no slot.
C25_CountCountsContent ==
    \A k \in SeqToSet(call.order) :
        (InGrid(rows, k) /\ CountsRange(formulas[k]))
            => Cell(rows, k)
                   = NumStr(Int2R(Cardinality(Counted(formulas[k]))))

\* A COUNT over a formula cell that holds an error code, which is counted,
\* and a blank plain cell, which is not.
C25_Witness ==
    \E k \in SeqToSet(call.order) :
        /\ InGrid(rows, k) /\ CountsRange(formulas[k])
        /\ \E cell \in Counted(formulas[k]) :
               /\ cell \in DOMAIN formulas /\ InGrid(rows, cell)
               /\ Cell(rows, cell).k \in ErrorCodes
        /\ \E cell \in SeqToSet(expand_range(formulas[k][1])) :
               cell \notin Counted(formulas[k])

\* The plain cell in which the chain of bare references starting at key
\* ends, <<-1, -1>> when there is none: a formula that is not one bare
\* reference, well formed and in bounds, ends the chain without one.
RECURSIVE ChainEnd(_, _)
ChainEnd(key, n) ==
    IF key \notin DOMAIN formulas THEN key
    ELSE IF n = 0 \/ Len(formulas[key]) # 1 \/ ~Resolvable(formulas[key][1])
    THEN <<-1, -1>>
    ELSE ChainEnd(parse_cell_ref(formulas[key][1].c1, formulas[key][1].r1), n - 1)

\* The number a plain cell resolves to.
PlainNumber(key) ==
    IF InGrid(rows, key) /\ Truthy(Cell(rows, key)) /\ FloatOk(Cell(rows, key))
    THEN FloatOf(Cell(rows, key)) ELSE Zero

\* C26: over an acyclic formula map the depth cap of _resolve is never hit.
\* A formula at the head of a chain of bare references, however long, that
\* ends in a plain cell does not hold #ERROR after a full pass: it holds
\* that cell's number.
C26_DepthCapNeverHit ==
    (PassDone /\ Acyclic(DOMAIN formulas)) =>
        \A k \in SeqToSet(probe.order) :
            (InGrid(rows, k)
                /\ ChainEnd(k, Cardinality(DOMAIN formulas)) # <<-1, -1>>)
            => /\ Cell(rows, k) # CodeStr("#ERROR")
               /\ Cell(rows, k) = format_result(
                      PlainNumber(ChainEnd(k, Cardinality(DOMAIN formulas))))

\* The grid with the text s in the slot of every formula key.
WithSlots(rs, s) ==
    [r \in 1..Len(rs) |->
        [c \in 1..Len(rs[r]) |->
            IF <<r - 1, c - 1>> \in DOMAIN formulas THEN s ELSE rs[r][c]]]

\* Texts a formula's slot may hold before a pass: the placeholder, a
\* number, an error code, a text that is neither.
SlotTexts == {Empty, NumStr(<<7, 1>>), CodeStr("#ERROR"), Word}

\* C27: a full recalculation does not depend on what the slots of the
\* formula cells held before it.  After a full pass, the grid it was given,
\* the grid it left and either of them with any text in the formula slots
\* all give the same grid under a full recalculation with the key set
\* iterated in one order; and for the order the pass took that grid is the
\* one it left, so a second full pass changes nothing.
C27_FullIgnoresFormulaSlots ==
    (call.full /\ ~call.raised) =>
        /\ \A perm \in SetIterOrders(DOMAIN formulas) :
               /\ recalculate(rows, formulas, TRUE, {}, perm).rows
                      = recalculate(call.pre, formulas, TRUE, {}, perm).rows
               /\ \A s \in SlotTexts :
                      recalculate(WithSlots(rows, s), formulas, TRUE, {}, perm).rows
                          = recalculate(call.pre, formulas, TRUE, {}, perm).rows
        /\ \E perm \in SetIterOrders(DOMAIN formulas) :
               recalculate(rows, formulas, TRUE, {}, perm).rows = rows

\* A full pass over a grid in which a formula's slot held the result of an
\* earlier pass, which this pass replaced by another, and in which a COUNT
\* ranges over a formula cell.
C27_Witness ==
    /\ call.full /\ ~call.raised /\ call.op = "update_cell"
    /\ \E k \in DOMAIN formulas :
           /\ InGrid(rows, k) /\ Truthy(Cell(call.pre, k))
           /\ Cell(call.pre, k) # Cell(rows, k)
    /\ \E k \in DOMAIN formulas :
           /\ InGrid(rows, k) /\ CountsRange(formulas[k])
           /\ Counted(formulas[k]) \cap DOMAIN formulas # {}


\* The grid has the shape of the grid recalculate was given.
SameShape(after, before) ==
    /\ Len(after) = Len(before)
    /\ \A r \in 1..Len(after) : Len(after[r]) = Len(before[r])

\* C28: recalculate writes only the slots of the formula keys in its
\* evaluation order: the grid keeps its shape, every plain cell keeps its
\* value, the formula map is the one the handler stored, and after a targeted
\* pass the slot of every formula outside the affected set is unchanged.
C28_RecalcWritesOrderOnly ==
    /\ SameShape(rows, call.pre)
    /\ \A k \in GridKeys(rows) :
           (InGrid(rows, k) /\ k \notin SeqToSet(call.order))
               => Cell(rows, k) = Cell(call.pre, k)
    /\ SeqToSet(call.order) \subseteq DOMAIN formulas
    /\ ~call.full =>
           \A k \in DOMAIN formulas :
               (InGrid(rows, k) /\ \A iter \in {"asc", "desc"} :
                    k \notin AffectedSet(formulas, call.changed, iter))
                   => Cell(rows, k) = Cell(call.pre, k)

\* A targeted pass that wrote a slot, beside a plain cell with a value and a
\* formula outside the affected set whose slot holds the value it held.
C28_Witness ==
    /\ ~call.full
    /\ rows # call.pre
    /\ \E k \in GridKeys(rows) :
           /\ InGrid(rows, k) /\ k \notin DOMAIN formulas
           /\ Cell(rows, k) # Empty
    /\ \E k \in DOMAIN formulas :
           /\ InGrid(rows, k) /\ k \notin SeqToSet(call.order)
           /\ Cell(rows, k) # Empty


\* The cells a key can name in the sheet or in a formula of it.
GraphCells(forward) ==
    GridKeys(rows) \cup DOMAIN formulas
        \cup UNION {forward[k] : k \in DOMAIN forward}

\* The two maps of a dependency graph agree with each other and with the
\* formula map.
MapsAgree(forward, reverse, cells) ==
    /\ DOMAIN forward = DOMAIN formulas
    /\ \A k \in DOMAIN formulas : \A r \in cells :
           r \in forward[k] <=> k \in ReverseGet(reverse, r)
    /\ \A r \in DOMAIN reverse :
           /\ r \in cells
           /\ reverse[r] # {}
           /\ reverse[r] \subseteq DOMAIN formulas

\* C29: the two maps of the dependency graph built from the formula map
\* agree: forward has the formula map's keys; a cell is in forward[k] exactly
\* when k is in the cell's reverse entry; every reverse entry is a cell some
\* formula reads and holds formula keys only.
C29_GraphMapsAgree ==
    MapsAgree(Forward(formulas), Reverse(Forward(formulas)),
              GraphCells(Forward(formulas)))

\* Some cell has two readers, one of which reads another cell as well.
SharedRef(forward, reverse) ==
    \E r \in DOMAIN reverse : \E k \in reverse[r] :
        /\ Cardinality(reverse[r]) >= 2
        /\ Cardinality(forward[k]) >= 2

\* A cell read by two formulas, one of which reads another cell as well.
C29_Witness == SharedRef(Forward(formulas), Reverse(Forward(formulas)))


\* Every formula key names a cell of the grid.
KeysInGrid ==
    \A k \in DOMAIN formulas :
        /\ 0 <= k[1] /\ k[1] < Len(rows)
        /\ 0 <= k[2] /\ k[2] < Len(columns)
        /\ InGrid(rows, k)

\* delete_row(i) right after insert_row_at(i) leaves the formula map that
\* insert_row_at found.
InsertThenDelete ==
    (/\ call.op = "insert_row_at"
     /\ call'.op = "delete_row"
     /\ call'.changed = call.changed)
        => formulas' = call.was

\* C30: from a rectangular sheet whose formula keys are cells of the grid,
\* after any sequence of update_cell, insert_row_at, delete_row,
\* delete_column, duplicate_row, move_column and sort_by_column every formula
\* key is a cell of the grid, and deleting row i right after inserting a row
\* at i restores the formula map.
C30_KeysStayInGrid == []KeysInGrid /\ [][InsertThenDelete]_vars

\* A row was added and then a row holding no formula was deleted, which
\* moved the keys of the formulas below it up by one.
C30_Witness ==
    /\ call.op = "delete_row"
    /\ edits = 2
    /\ Len(rows) = Len(call.pre)
    /\ Len(rows) = Cardinality({k[1] : k \in UNION {DOMAIN g : g \in GridCells}})
    /\ \A k \in DOMAIN call.was : \A i \in call.changed : k[1] # i[1]
    /\ \E k \in DOMAIN call.was : \E i \in call.changed :
           /\ k[1] > i[1]
           /\ <<k[1] - 1, k[2]>> \in DOMAIN formulas
           /\ formulas[<<k[1] - 1, k[2]>>] = call.was[k]

=============================================================================
